---- MODULE Spec2Model ----
(***************************************************************************)
(* Medicos MCP backend: the tool registry, the tools/call dispatch and the *)
(* governance pipeline (with_governance: extract context, check intent,    *)
(* run the handler, write the audit record).                               *)
(*                                                                         *)
(* A request is one tools/call.  Requests run as tasks of one asyncio      *)
(* event loop; the only points where a governed task is suspended are the  *)
(* two run_in_executor awaits inside ArmorIQClient.check_intent.  The      *)
(* domain handlers, log_audit and write_doc contain no await of their     *)
(* own: they block the loop and return.  The model interleaves the         *)
(* steps of different requests freely (several workers), and delivers a    *)
(* cancellation only where the task is suspended.                          *)
(***************************************************************************)
EXTENDS Naturals, Integers, Sequences, FiniteSets, TLC

\* Number of concurrent tools/call requests of Spec.
MaxCalls == 2
\* Number of requests of SpecContext and SpecTools (the wide input sets).
MaxToolCalls == 1

Calls == 1..MaxCalls
SurfaceCalls == {c \in Calls : c <= MaxToolCalls}

Range(s) == {s[i] : i \in DOMAIN s}

(***************************************************************************)
(* JSON values as far as arguments["context"] needs them.  A scalar is     *)
(* [t, s]; a value is [t, s, o] where o holds the members of an object.    *)
(***************************************************************************)
JNone == [t |-> "null", s |-> ""]
JS(x) == [t |-> "str", s |-> x]
JI(x) == [t |-> "int", s |-> x]
NoMembers == [k \in {} |-> JNone]
JAbsent == [t |-> "absent", s |-> "", o |-> NoMembers]
JNull == [t |-> "null", s |-> "", o |-> NoMembers]
JStr(x) == [t |-> "str", s |-> x, o |-> NoMembers]
JInt(x) == [t |-> "int", s |-> x, o |-> NoMembers]
JObj(m) == [t |-> "obj", s |-> "", o |-> m]

\* ToolContext's fields (models/context.py).
ContextFields == {"user_id", "prescription_id", "agent_name", "request_id"}

\* ToolContext() with every field at its default None.
EmptyContext == [k \in ContextFields |-> JNone]

\* Python truthiness of a JSON value: `arguments.get("context") or {}`.
Falsy(j) ==
    \/ j.t \in {"absent", "null"}
    \/ j.t = "str" /\ j.s = ""
    \/ j.t = "int" /\ j.s = "0"
    \/ j.t = "obj" /\ DOMAIN j.o = {}

\* context_data = arguments.get("context") or {}
context_data(j) == IF Falsy(j) THEN JObj(NoMembers) ELSE j

\* Whether ToolContext.model_validate(d) accepts d: d must be a mapping and
\* every declared field Optional[str]; unknown members are ignored.
Validates(d) ==
    /\ d.t = "obj"
    /\ \A k \in DOMAIN d.o \cap ContextFields : d.o[k].t \in {"str", "null"}

\* The ToolContext that model_validate(d) builds, for a d it accepts.
model_validate(d) ==
    [k \in ContextFields |-> IF k \in DOMAIN d.o THEN d.o[k] ELSE JNone]

\* context.model_dump(): the four fields as a mapping.
model_dump(ctx) == [k \in ContextFields |-> ctx[k]]

(***************************************************************************)
(* Errors and results.                                                     *)
(***************************************************************************)
NoError == [type |-> "", message |-> ""]
NoResult == [tool |-> "", data |-> ""]
Pending == [kind |-> "none", value |-> NoResult, error |-> NoError]
Return(v) == [kind |-> "return", value |-> v, error |-> NoError]
Raise(e) == [kind |-> "raise", value |-> NoResult, error |-> e]

ValidationError == [type |-> "ValidationError", message |-> "1 validation error for ToolContext"]
HandlerError == [type |-> "ValueError", message |-> "Missing required field"]
AuditSinkError == [type |-> "RuntimeError", message |-> "audit_logs write failed"]
CancelledError == [type |-> "CancelledError", message |-> ""]
HandlerKeyError == [type |-> "KeyError", message |-> "0"]
StoreError == [type |-> "RuntimeError", message |-> "Firebase app not initialized"]
NotFound == [type |-> "NotFound", message |-> "No document to update"]

\* raise PermissionError(f"Intent '{intent}' denied: {reason}")
PermissionError(intent, reason) ==
    [type |-> "PermissionError",
     message |-> "Intent '" \o intent \o "' denied: " \o reason]

(***************************************************************************)
(* The registry after create_server: 18 tools.  gov tells whether the      *)
(* registered handler wraps its core in with_governance; effects are the   *)
(* collaborators the core uses when it runs to the end.                    *)
(***************************************************************************)
Tool(g, i, e, fx) == [gov |-> g, intent |-> i, event_type |-> e, effects |-> fx]

FirebaseTools ==
    {"firebase.store_file", "firebase.write_doc", "firebase.update_doc",
     "firebase.read_doc", "firebase.query"}

GovernanceTools == {"policy.check_intent", "audit.log"}

DomainTools ==
    {"ocr.extract_text", "rx.parse_text", "rx.expand_abbrev", "rx.validate",
     "drug.normalize", "drug.rules", "schedule.generate", "schedule.adjust",
     "notify.send", "med.log_action", "adherence.analyze"}

ToolNames == FirebaseTools \cup GovernanceTools \cup DomainTools

Registry ==
    [n \in ToolNames |->
      CASE n = "firebase.store_file" -> Tool(FALSE, "", "", {"store_write"})
        [] n = "firebase.write_doc" -> Tool(FALSE, "", "", {"store_write"})
        [] n = "firebase.update_doc" -> Tool(FALSE, "", "", {"store_write"})
        [] n = "firebase.read_doc" -> Tool(FALSE, "", "", {"store_read"})
        [] n = "firebase.query" -> Tool(FALSE, "", "", {"store_read"})
        [] n = "policy.check_intent" -> Tool(FALSE, "", "", {})
        [] n = "audit.log" -> Tool(FALSE, "", "", {"store_write"})
        [] n = "ocr.extract_text" ->
             Tool(TRUE, "extract medical text", "ocr.extract_text",
                  {"store_read", "llm", "store_write"})
        [] n = "rx.parse_text" ->
             Tool(TRUE, "parse prescription", "rx.parse_text",
                  {"store_read", "llm", "store_write"})
        [] n = "rx.expand_abbrev" ->
             Tool(TRUE, "expand prescription abbreviations", "rx.expand_abbrev", {})
        [] n = "rx.validate" ->
             Tool(TRUE, "validate medical data", "rx.validate",
                  {"store_read", "llm", "store_write"})
        [] n = "drug.normalize" ->
             Tool(TRUE, "normalize medication", "drug.normalize", {"llm"})
        [] n = "drug.rules" ->
             Tool(TRUE, "check drug rules", "drug.rules", {"llm"})
        [] n = "schedule.generate" ->
             Tool(TRUE, "create medication schedule", "schedule.generate",
                  {"store_read", "llm", "store_write"})
        [] n = "schedule.adjust" ->
             Tool(TRUE, "adjust reminder timing", "schedule.adjust",
                  {"store_read", "llm", "store_write"})
        [] n = "notify.send" ->
             Tool(TRUE, "send medical reminder", "notify.send",
                  {"store_read", "notify"})
        [] n = "med.log_action" ->
             Tool(TRUE, "log medication action", "med.log_action",
                  {"store_read", "store_write"})
        [] n = "adherence.analyze" ->
             Tool(TRUE, "analyze adherence", "adherence.analyze",
                  {"store_read", "llm", "store_write"})]

\* Faulty variant of Governed: notify.send is registered with its bare core.
GovernedExceptNotify(n) == Registry[n].gov /\ n # "notify.send"

\* Whether the handler registered under n is a with_governance wrapper
\* (lambda args: _handle_x(armor_client, ...)) or the bare core function.
Governed(n) == Registry[n].gov

(***************************************************************************)
(* ArmorIQClient.check_intent.  The SDK either issues a token or raises;   *)
(* str(e) of an SDK exception is modelled by the exception's name.         *)
(***************************************************************************)
SdkOutcomes == {"token", "InvalidTokenException", "ConnectionError"}

NoIntentResult == [allowed |-> FALSE, reason |-> ""]

\* Faulty variant of check_intent: the catch-all branch lets the call through.
check_intent_fail_open(intent, sdk_outcome) ==
    CASE sdk_outcome = "token" ->
           [allowed |-> TRUE, reason |-> "Intent validated successfully"]
      [] sdk_outcome \in {"InvalidTokenException", "ConfigurationException"} ->
           [allowed |-> FALSE,
            reason |-> "Intent validation failed: " \o sdk_outcome]
      [] OTHER ->
           [allowed |-> TRUE,
            reason |-> "Intent validation error: " \o sdk_outcome]

check_intent(intent, sdk_outcome) ==
    CASE sdk_outcome = "token" ->
           [allowed |-> TRUE, reason |-> "Intent validated successfully"]
      [] sdk_outcome \in {"InvalidTokenException", "ConfigurationException"} ->
           [allowed |-> FALSE,
            reason |-> "Intent validation failed: " \o sdk_outcome]
      [] OTHER ->
           [allowed |-> FALSE,
            reason |-> "Intent validation error: " \o sdk_outcome]

\* Faulty variant of IsDenied: the result is read under a key it never has, so the
\* default applies and nothing is denied.
IsDeniedWrongKey(r) == FALSE

\* if not intent_result.get("allowed", False)
IsDenied(r) == ~r.allowed

(***************************************************************************)
(* The statement order of with_governance as a successor function on the   *)
(* task's position: "check" awaits check_intent, "handler" awaits the      *)
(* handler, "audit" awaits log_audit, "done" has returned or raised.       *)
(***************************************************************************)
\* Faulty variant of NextPc: the audit record is written before the handler runs.
NextPcAuditFirst(p, denied) ==
    CASE p = "check" -> IF denied THEN "done" ELSE "audit"
      [] p = "audit" -> "handler"
      [] p = "handler" -> "done"
      [] OTHER -> "done"

\* Faulty variant of NextPc: a denial is audited like an executed call.
NextPcAuditDenials(p, denied) ==
    CASE p = "check" -> IF denied THEN "audit" ELSE "handler"
      [] p = "handler" -> "audit"
      [] p = "audit" -> "done"
      [] OTHER -> "done"

\* Faulty variant of NextPc: after the audit write the call is checked again.
NextPcRecheck(p, denied) ==
    CASE p = "check" -> IF denied THEN "done" ELSE "handler"
      [] p = "handler" -> "audit"
      [] p = "audit" -> "check"
      [] OTHER -> "done"

NextPc(p, denied) ==
    CASE p = "check" -> IF denied THEN "done" ELSE "handler"
      [] p = "handler" -> "audit"
      [] p = "audit" -> "done"
      [] OTHER -> "done"

\* Faulty variant of AtSuspensionPoint: the handler and the audit write yield to
\* the event loop, so a cancellation reaches the task there too.
AtAnyAwait(p, t) == p \in {"check", "handler", "audit", "run"}

\* Where a task is suspended on the event loop, so that a cancellation
\* requested by the transport is thrown into it: the run_in_executor awaits
\* of check_intent (reached from with_governance and from policy.check_intent).
AtSuspensionPoint(p, t) ==
    \/ p = "check"
    \/ p = "run" /\ t = "policy.check_intent"

(***************************************************************************)
(* Audit records.  The timestamp (datetime.utcnow) is left out.            *)
(***************************************************************************)
\* Faulty variant of FailedEventType: the suffix is forgotten.
FailedEventTypeNoSuffix(event_type) == event_type

\* event_type=f"{event_type}.failed"
FailedEventType(event_type) == event_type \o ".failed"

FailurePayload(ctx, args, err) ==
    [context |-> model_dump(ctx), error |-> err.message, arguments |-> args]

\* Faulty variant of SuccessPayload: the result is not put into the payload.
SuccessPayloadNoResult(ctx, args, res) ==
    [context |-> model_dump(ctx), result |-> NoResult, arguments |-> args]

SuccessPayload(ctx, args, res) ==
    [context |-> model_dump(ctx), result |-> res, arguments |-> args]

\* The audit_entry that log_audit hands to write_doc.
log_audit(event_type, user_id, payload) ==
    [event_type |-> event_type, user_id |-> user_id, payload |-> payload,
     source |-> "armoriq-governance"]

\* firebase_client.write_doc with doc_id None: a new document with an
\* auto-generated id, or an exception of the client and nothing written.
SinkOutcomes == {"ok", "fail"}
\* Faulty variant of write_doc: the document is set twice under two fresh ids.
write_doc_twice(docs, data, sink) ==
    IF sink = "ok" THEN Append(Append(docs, data), data) ELSE docs
write_doc(docs, data, sink) == IF sink = "ok" THEN Append(docs, data) ELSE docs

(***************************************************************************)
(* Domain handlers.  A core either runs to the end and returns its result, *)
(* or raises (its required-field checks come first, before any             *)
(* collaborator is used).                                                  *)
(***************************************************************************)
HandlerOutcomes == {"ok", "raise"}
Result(t) == [tool |-> t, data |-> "ok"]

\* _core_log indexes schedule["schedule_events"] by event_index after a
\* length check only: a stored schedule whose schedule_events is a map makes
\* schedule_events[event_index] raise KeyError.
HandlerOutcomesOf(t) ==
    IF t = "med.log_action" THEN HandlerOutcomes \cup {"key_error"} ELSE HandlerOutcomes

handler(t, out) ==
    CASE out = "ok" -> Return(Result(t))
      [] out = "key_error" -> Raise(HandlerKeyError)
      [] OTHER -> Raise(HandlerError)
handler_effects(t, out) == IF out = "ok" THEN Registry[t].effects ELSE {}

(***************************************************************************)
(* ToolRegistry: self._tools is a dict, which keeps its keys in insertion  *)
(* order; it is modelled as the sequence of its entries.                   *)
(***************************************************************************)
NoRegistryError == [type |-> "", message |-> ""]
DuplicateTool(n) == [type |-> "ValueError", message |-> "Tool '" \o n \o "' already registered"]
UnknownTool(n) == [type |-> "KeyError", message |-> "Unknown tool '" \o n \o "'"]

RegisteredTool(tl, h) == [name |-> tl.name, spec |-> tl, handler |-> h]
RegisteredNames(ts) == {ts[i].name : i \in DOMAIN ts}

\* Faulty variant of add_tool: a duplicate name replaces the entry's handler
\* before the error is raised.
add_tool_overwrites(ts, tl, h) ==
    IF tl.name \in RegisteredNames(ts)
    THEN [tools |-> [i \in DOMAIN ts |->
                       IF ts[i].name = tl.name THEN RegisteredTool(tl, h) ELSE ts[i]],
          error |-> DuplicateTool(tl.name)]
    ELSE [tools |-> Append(ts, RegisteredTool(tl, h)), error |-> NoRegistryError]

\* ToolRegistry.add_tool: the table after the call and what the call raised.
add_tool(ts, tl, h) ==
    IF tl.name \in RegisteredNames(ts)
    THEN [tools |-> ts, error |-> DuplicateTool(tl.name)]
    ELSE [tools |-> Append(ts, RegisteredTool(tl, h)), error |-> NoRegistryError]

\* Faulty variant of list_tools: the specs come out newest first.
list_tools_reversed(ts) == [i \in DOMAIN ts |-> ts[Len(ts) + 1 - i].spec]

\* ToolRegistry.list_tools
list_tools(ts) == [i \in DOMAIN ts |-> ts[i].spec]

\* Faulty variant of get_handler: an unknown name falls back to the first
\* registered handler.
get_handler_fallback(ts, n) ==
    IF n \notin RegisteredNames(ts)
    THEN IF ts = << >> THEN [handler |-> "", error |-> UnknownTool(n)]
         ELSE [handler |-> ts[1].handler, error |-> NoRegistryError]
    ELSE [handler |-> ts[CHOOSE i \in DOMAIN ts : ts[i].name = n].handler,
          error |-> NoRegistryError]

\* ToolRegistry.get_handler: the handler returned, or the KeyError raised.
get_handler(ts, n) ==
    IF n \notin RegisteredNames(ts)
    THEN [handler |-> "", error |-> UnknownTool(n)]
    ELSE [handler |-> ts[CHOOSE i \in DOMAIN ts : ts[i].name = n].handler,
          error |-> NoRegistryError]

\* Faulty variant of StartupOrder: register_tools of notify_tools is not
\* called.
StartupOrderWithoutNotify ==
    <<"firebase.store_file", "firebase.write_doc", "firebase.update_doc",
      "firebase.read_doc", "firebase.query", "policy.check_intent", "audit.log",
      "ocr.extract_text", "rx.parse_text", "rx.expand_abbrev", "rx.validate",
      "drug.normalize", "drug.rules", "schedule.generate", "schedule.adjust",
      "med.log_action", "adherence.analyze">>

\* The registrations of create_server, in the order of its register_tools
\* calls; a startup tool's spec and handler are identified by its name.
StartupOrder ==
    <<"firebase.store_file", "firebase.write_doc", "firebase.update_doc",
      "firebase.read_doc", "firebase.query", "policy.check_intent", "audit.log",
      "ocr.extract_text", "rx.parse_text", "rx.expand_abbrev", "rx.validate",
      "drug.normalize", "drug.rules", "schedule.generate", "schedule.adjust",
      "notify.send", "med.log_action", "adherence.analyze">>

\* The "required" list of each tool's inputSchema, as written in the
\* register_tools function that builds it.
required_params ==
    [n \in ToolNames |->
       CASE n = "firebase.store_file" -> {"path", "content"}
         [] n = "firebase.write_doc" -> {"collection", "data"}
         [] n = "firebase.update_doc" -> {"collection", "doc_id", "data"}
         [] n = "firebase.read_doc" -> {"collection", "doc_id"}
         [] n = "firebase.query" -> {"collection"}
         [] n = "policy.check_intent" -> {"intent"}
         [] n = "audit.log" -> {"event_type"}
         [] n = "ocr.extract_text" -> {"file_path", "prescription_id"}
         [] n = "rx.parse_text" -> {"prescription_id"}
         [] n = "rx.expand_abbrev" -> {}
         [] n = "rx.validate" -> {"prescription_id"}
         [] n = "drug.normalize" -> {}
         [] n = "drug.rules" -> {"drug_name"}
         [] n = "schedule.generate" -> {"prescription_id", "user_id"}
         [] n = "schedule.adjust" -> {"schedule_id"}
         [] n = "notify.send" -> {"user_id"}
         [] n = "med.log_action" -> {"user_id", "schedule_id", "event_index", "action"}
         [] n = "adherence.analyze" -> {"user_id", "schedule_id"}]

ToolSpec(n, d) == [name |-> n, description |-> d, required |-> required_params[n]]

RECURSIVE register_all(_, _)
register_all(ts, names) ==
    IF names = << >> THEN ts
    ELSE register_all(add_tool(ts, ToolSpec(Head(names), Head(names)), Head(names)).tools,
                      Tail(names))

StartupTools == register_all(<< >>, StartupOrder)

\* The errors raised by the add_tool calls of a registration sequence.
RECURSIVE register_errors(_, _)
register_errors(ts, names) ==
    IF names = << >> THEN << >>
    ELSE LET r == add_tool(ts, ToolSpec(Head(names), Head(names)), Head(names))
         IN (IF r.error = NoRegistryError THEN << >> ELSE <<r.error>>)
              \o register_errors(r.tools, Tail(names))
StartupErrors == register_errors(<< >>, StartupOrder)

NoRegistryResult ==
    [op |-> "", name |-> "", error |-> NoRegistryError, specs |-> << >>, handler |-> ""]

\* Faulty variant of AutoId: every new document gets the same id, so a write
\* of one request replaces the document another request wrote.
AutoIdShared(c) == "auto1"

(***************************************************************************)
(* Firestore as far as the tools reach it: two collections of documents.   *)
(* A document slot is << >> (no document) or <<data>>.  document() with no *)
(* id yields a fresh id, modelled as one reserved id per request.          *)
(***************************************************************************)
Collections == {"audit_logs", "schedules"}
AutoId(c) == "auto" \o ToString(c)
DocIds == {AutoId(c) : c \in Calls} \cup {"s1"}
\* doc_id arguments of firebase.write_doc and firebase.update_doc; "" is None.
DocIdArgs == DocIds \cup {""}
EmptyFirestore == [col \in Collections |-> [id \in DocIds |-> << >>]]

\* The data argument of firebase.write_doc and firebase.update_doc.
ArgData == [event_type |-> "tampered"]

\* doc_ref.set(data): the document is created or replaced.
doc_set(db, col, id, data) == [db EXCEPT ![col][id] = <<data>>]

\* doc_ref.update(data): the fields of data are merged into the document.
doc_merge(old, data) ==
    [k \in DOMAIN old \cup DOMAIN data |-> IF k \in DOMAIN data THEN data[k] ELSE old[k]]

\* firebase_client.write_doc as seen in the store: what the store holds
\* afterwards and what the call raised.
store_write_doc(db, col, doc_id, auto, data, sink) ==
    IF sink = "fail" THEN [db |-> db, error |-> StoreError]
    ELSE [db |-> doc_set(db, col, IF doc_id # "" THEN doc_id ELSE auto, data),
          error |-> NoError]

\* firebase_client.update_doc
update_doc(db, col, doc_id, data, sink) ==
    IF sink = "fail" THEN [db |-> db, error |-> StoreError]
    ELSE IF db[col][doc_id] = << >> THEN [db |-> db, error |-> NotFound]
    ELSE [db |-> doc_set(db, col, doc_id, doc_merge(db[col][doc_id][1], data)),
          error |-> NoError]

(***************************************************************************)
(* The request envelope, as far as mcp_stream and handle_mcp_request read  *)
(* it.  body is what json.loads makes of the HTTP body; "" stands for a    *)
(* missing member and params tells what kind of value params is.           *)
(***************************************************************************)
NoRequest ==
    [body |-> "", jsonrpc |-> "", method |-> "", params |-> "", name |-> "",
     uri |-> "", id |-> ""]
RequestId(c) == ToString(c)
Envelope(v, m, ps, n, i) ==
    [body |-> "object", jsonrpc |-> v, method |-> m, params |-> ps, name |-> n,
     uri |-> "", id |-> i]
\* A resources/read request; u is the uri member of its params ("" when
\* there is none).
ResourcesRead(ps, u, i) == [Envelope("2.0", "resources/read", ps, "", i) EXCEPT !.uri = u]
ToolsCall(c, t) == Envelope("2.0", "tools/call", "object", t, RequestId(c))

(***************************************************************************)
(* State: one entry per tools/call request.                                *)
(***************************************************************************)
VARIABLES
    pc,              \* position of the request's task
    tool,            \* params.name
    arguments,       \* params.arguments, as far as its "context" member
    context,         \* the ToolContext extracted by with_governance
    sdk,             \* what the ArmorIQ SDK did for this request's check
    intent_result,   \* what check_intent returned
    handler_calls,   \* how often the request's core handler was invoked
    handler_result,  \* what the core handler returned or raised
    effects,         \* collaborators the core handler used
    audit_logs,      \* documents this request appended to audit_logs
    outcome,         \* what the registered handler returned or raised
    abandoned,       \* "no", or when the caller gave the request up
    events,          \* history of the request: check, handler, audit
    request,         \* the request envelope received for the request
    handler_input,   \* what the core handler read: arguments, document, completion
    firestore,       \* the documents of the store's collections
    registry_tools,  \* ToolRegistry._tools
    registrations,   \* every add_tool call made so far, with its outcome
    registry_result  \* what the last registry operation returned or raised

gateVars == <<pc, tool, arguments, context, sdk, intent_result, handler_calls,
              handler_result, effects, audit_logs, outcome, abandoned, events,
              request, handler_input, firestore>>
registryVars == <<registry_tools, registrations, registry_result>>

vars == <<pc, tool, arguments, context, sdk, intent_result, handler_calls,
          handler_result, effects, audit_logs, outcome, abandoned, events,
          request, handler_input, firestore, registry_tools, registrations,
          registry_result>>

\* What a core handler read, before any has run: the document id and user
\* id arguments, the medicines argument, the completion returned by
\* llm_client.complete_json and the document read from the store.
NoCompletion == [kind |-> "", events |-> << >>, status |-> ""]
NoInput ==
    [doc_id |-> "", user_id |-> "", medicines |-> << >>, llm |-> NoCompletion,
     before |-> << >>]

\* No request has arrived yet.
InitCalls ==
    /\ pc = [c \in Calls |-> "new"]
    /\ tool = [c \in Calls |-> ""]
    /\ arguments = [c \in Calls |-> [context |-> JAbsent]]
    /\ context = [c \in Calls |-> EmptyContext]
    /\ sdk = [c \in Calls |-> ""]
    /\ intent_result = [c \in Calls |-> NoIntentResult]
    /\ handler_calls = [c \in Calls |-> 0]
    /\ handler_result = [c \in Calls |-> Pending]
    /\ effects = [c \in Calls |-> {}]
    /\ audit_logs = [c \in Calls |-> << >>]
    /\ outcome = [c \in Calls |-> Pending]
    /\ abandoned = [c \in Calls |-> "no"]
    /\ events = [c \in Calls |-> << >>]
    /\ request = [c \in Calls |-> NoRequest]
    /\ handler_input = [c \in Calls |-> NoInput]

\* No request has arrived yet and the store holds no document.
InitRequests ==
    /\ InitCalls
    /\ firestore = EmptyFirestore

\* The server after create_server: the registry holds the startup tools.
Init ==
    /\ InitRequests
    /\ registry_tools = StartupTools
    /\ registrations = << >>
    /\ registry_result = NoRegistryResult

\* The task of request c moves to position np; entering "handler" is the
\* call `await handler(arguments)`.
Enter(c, np, ev) ==
    /\ pc' = [pc EXCEPT ![c] = np]
    /\ handler_calls' =
         [handler_calls EXCEPT ![c] = IF np = "handler" THEN @ + 1 ELSE @]
    /\ events' =
         [events EXCEPT ![c] = IF np = "handler" THEN (@ \o ev) \o <<"handler">>
                                                 ELSE @ \o ev]

(***************************************************************************)
(* tools/call name=t arguments={"context": j, ...}: registry.get_handler   *)
(* and the call of the registered handler, up to its first await.  For a   *)
(* governed tool this is the context extraction of with_governance.        *)
(***************************************************************************)
InvokeHandler(c, t, j) ==
    /\ tool' = [tool EXCEPT ![c] = t]
    /\ arguments' = [arguments EXCEPT ![c] = [context |-> j]]
    /\ IF Governed(t)
       THEN IF Validates(context_data(j))
            THEN /\ context' = [context EXCEPT ![c] = model_validate(context_data(j))]
                 /\ pc' = [pc EXCEPT ![c] = "check"]
                 /\ outcome' = outcome
            ELSE /\ context' = context
                 /\ pc' = [pc EXCEPT ![c] = "done"]
                 /\ outcome' = [outcome EXCEPT ![c] = Raise(ValidationError)]
       ELSE /\ context' = context
            /\ pc' = [pc EXCEPT ![c] = "run"]
            /\ outcome' = outcome
    /\ handler_calls' = [handler_calls EXCEPT ![c] = IF Governed(t) THEN @ ELSE @ + 1]
    /\ events' = [events EXCEPT ![c] = IF Governed(t) THEN @ ELSE <<"handler">>]
    /\ UNCHANGED <<sdk, intent_result, handler_result, effects, audit_logs, abandoned>>
    /\ UNCHANGED <<firestore, registryVars, handler_input>>

\* A well-formed tools/call request for the registered tool t arrives.
Start(c, t, j) ==
    /\ pc[c] = "new"
    /\ get_handler(registry_tools, t).error = NoRegistryError
    /\ request' = [request EXCEPT ![c] = ToolsCall(c, t)]
    /\ InvokeHandler(c, t, j)

(***************************************************************************)
(* The responses of mcp_stream and handle_mcp_request.  wire is "tuple"    *)
(* for what mcp_stream returns as (body, status) from the path function    *)
(* and "sse" for an event of the StreamingResponse; id "" is null.  The    *)
(* routes initialize, resources/* and prompts/* are not covered here.      *)
(***************************************************************************)
PARSE_ERROR == -32700
INVALID_REQUEST == -32600
METHOD_NOT_FOUND == -32601
INVALID_PARAMS == -32602
INTERNAL_ERROR == -32603

\* The result of initialize; capabilities is the set of keys of the
\* capabilities object.
NoInit == [protocolVersion |-> "", capabilities |-> {}, serverInfo |-> ""]

NoResponse ==
    [wire |-> "none", kind |-> "none", code |-> 0, message |-> "", id |-> "",
     result |-> NoResult, tools |-> << >>, init |-> NoInit]
\* Faulty variant of ErrorResponse: the error envelope carries a null id.
ErrorResponseNullId(w, code, msg, i) ==
    [wire |-> w, kind |-> "error", code |-> code, message |-> msg, id |-> "",
     result |-> NoResult, tools |-> << >>, init |-> NoInit]
ErrorResponse(w, code, msg, i) ==
    [wire |-> w, kind |-> "error", code |-> code, message |-> msg, id |-> i,
     result |-> NoResult, tools |-> << >>, init |-> NoInit]
ResultResponse(i, v, ts) ==
    [wire |-> "sse", kind |-> "result", code |-> 0, message |-> "", id |-> i,
     result |-> v, tools |-> ts, init |-> NoInit]

\* Faulty variant of ValidVersion: version "1.0" is let through as well.
ValidVersionLoose(v) == v \in {"2.0", "1.0"}

\* message.get("jsonrpc") != "2.0" rejects
ValidVersion(v) == v = "2.0"

\* mcp_stream, lines 82-133: the response it returns before dispatch, or
\* NoResponse when the request goes on to handle_mcp_request.
mcp_stream(req) ==
    CASE req.body = "empty" ->
           [wire |-> "tuple", kind |-> "bare", code |-> 0,
            message |-> "Empty request body", id |-> "",
            result |-> NoResult, tools |-> << >>, init |-> NoInit]
      [] req.body = "invalid_json" ->
           ErrorResponse("tuple", PARSE_ERROR, "Parse error: Expecting value", "")
      [] req.body # "object" ->
           ErrorResponse("tuple", INTERNAL_ERROR,
                         "Internal error: object has no attribute 'get'", "")
      [] ~ValidVersion(req.jsonrpc) ->
           ErrorResponse("tuple", INVALID_REQUEST,
                         "Invalid Request: jsonrpc must be '2.0'", req.id)
      [] req.method = "" ->
           ErrorResponse("tuple", INVALID_REQUEST,
                         "Invalid Request: method is required", req.id)
      [] OTHER -> NoResponse

\* Whether the request reaches `await handler(arguments)` of tools/call.
Dispatches(ts, req) ==
    /\ mcp_stream(req) = NoResponse
    /\ req.method = "tools/call"
    /\ req.params \in {"object", "absent"}
    /\ req.name # ""
    /\ get_handler(ts, req.name).error = NoRegistryError

\* Faulty variant of call_tool_response: an exception of the handler is
\* answered as invalid params.
call_tool_response_invalid_params(req, out) ==
    CASE out.kind = "return" -> ResultResponse(req.id, out.value, << >>)
      [] out.kind = "raise" /\ out.error.type = "KeyError" ->
           ErrorResponse("sse", METHOD_NOT_FOUND, "Tool not found: " \o req.name, req.id)
      [] out.kind = "raise" /\ out.error.type = "CancelledError" -> NoResponse
      [] out.kind = "raise" ->
           ErrorResponse("sse", INVALID_PARAMS,
                         "Tool execution error: " \o out.error.message, req.id)
      [] OTHER -> NoResponse

\* handle_mcp_request, lines 246-280: the response to what the registered
\* handler returned or raised.  A CancelledError is no Exception and leaves
\* handle_mcp_request without a response.
call_tool_response(req, out) ==
    CASE out.kind = "return" -> ResultResponse(req.id, out.value, << >>)
      [] out.kind = "raise" /\ out.error.type = "KeyError" ->
           ErrorResponse("sse", METHOD_NOT_FOUND, "Tool not found: " \o req.name, req.id)
      [] out.kind = "raise" /\ out.error.type = "CancelledError" -> NoResponse
      [] out.kind = "raise" ->
           ErrorResponse("sse", INTERNAL_ERROR,
                         "Tool execution error: " \o out.error.message, req.id)
      [] OTHER -> NoResponse

\* The optional handler attributes found on the server object by
\* getattr(server, "_<hook>_handler", None).  create_server sets none of
\* them, so every probe yields None.
ServerHooks == {}

\* The exception of the function's outer `except Exception` as a response.
InternalError(req, msg) ==
    ErrorResponse("sse", INTERNAL_ERROR, "Internal error: " \o msg, req.id)

\* InitializationOptions(**params) if params else InitializationOptions():
\* the model's required fields server_name, server_version and capabilities
\* are present only in params of kind "options"; any other params fail
\* validation (or, for an array, the ** unpacking).
OptionsError ==
    [type |-> "ValidationError",
     message |-> "3 validation errors for InitializationOptions"]
InitializationOptions(ps) ==
    IF ps = "options" THEN Return(NoResult) ELSE Raise(OptionsError)

\* The keys of the capabilities object built by the initialize route.
capabilities == {"tools", "resources", "prompts"}

\* handle_mcp_request, lines 184-219
initialize(req) ==
    IF InitializationOptions(req.params).kind = "raise"
    THEN InternalError(req, InitializationOptions(req.params).error.message)
    ELSE [ResultResponse(req.id, NoResult, << >>) EXCEPT
            !.init = [protocolVersion |-> "2024-11-05",
                      capabilities |-> capabilities,
                      serverInfo |-> "medicos-mcp-backend"]]

\* handle_mcp_request, lines 282-386: a route that delegates to an optional
\* hook.  required is "present" when the route needs no parameter or the
\* parameter is there, and the name of the missing parameter otherwise.
hook_route(req, hook, required) ==
    IF required # "present" THEN
        ErrorResponse("sse", INVALID_PARAMS,
                      "Invalid params: '" \o required \o "' is required", req.id)
    ELSE IF hook \notin ServerHooks THEN
        ErrorResponse("sse", METHOD_NOT_FOUND,
                      "Method not found: " \o req.method \o " not supported", req.id)
    ELSE ResultResponse(req.id, NoResult, << >>)

\* Faulty variant of tools_list: the last registered spec is left out.
tools_list_truncated(ts, req) ==
    ResultResponse(req.id, NoResult,
                   SubSeq(list_tools(ts), 1, IF ts = << >> THEN 0 ELSE Len(ts) - 1))

\* handle_mcp_request, lines 221-229
tools_list(ts, req) == ResultResponse(req.id, NoResult, list_tools(ts))

\* handle_mcp_request, one case per route.  params of a kind without .get
\* (null, array) raises inside a route that reads a parameter and is
\* answered by the function's outer handler.
handle_mcp_request(ts, req, out) ==
    CASE req.method = "initialize" -> initialize(req)
      [] req.method = "tools/list" -> tools_list(ts, req)
      [] req.method = "resources/list" -> hook_route(req, "_list_resources_handler", "present")
      [] req.method = "resources/read" ->
           IF req.params \notin {"object", "absent"}
           THEN InternalError(req, "object has no attribute 'get'")
           ELSE hook_route(req, "_read_resource_handler",
                           IF req.uri = "" THEN "uri" ELSE "present")
      [] req.method = "prompts/list" -> hook_route(req, "_list_prompts_handler", "present")
      [] req.method = "prompts/get" ->
           IF req.params \notin {"object", "absent"}
           THEN InternalError(req, "object has no attribute 'get'")
           ELSE hook_route(req, "_get_prompt_handler",
                           IF req.name = "" THEN "name" ELSE "present")
      [] req.method = "tools/call" ->
           IF req.params \notin {"object", "absent"}
           THEN InternalError(req, "object has no attribute 'get'")
           ELSE IF req.name = ""
           THEN ErrorResponse("sse", INVALID_PARAMS,
                              "Invalid params: 'name' is required", req.id)
           ELSE IF get_handler(ts, req.name).error # NoRegistryError
           THEN ErrorResponse("sse", METHOD_NOT_FOUND,
                              "Tool not found: " \o req.name, req.id)
           ELSE call_tool_response(req, out)
      [] OTHER ->
           ErrorResponse("sse", METHOD_NOT_FOUND, "Method not found: " \o req.method, req.id)

\* The response to request c, once the request is done.
Response(c) ==
    IF pc[c] # "done" THEN NoResponse
    ELSE IF mcp_stream(request[c]) # NoResponse THEN mcp_stream(request[c])
    ELSE handle_mcp_request(registry_tools, request[c], outcome[c])

\* Faulty variant of Receive: answering a request that runs no tool empties
\* the registry.
ReceiveClearingRegistry(c, req, j) ==
    /\ pc[c] = "new"
    /\ request' = [request EXCEPT ![c] = req]
    /\ IF Dispatches(registry_tools, req)
       THEN InvokeHandler(c, req.name, j)
       ELSE /\ pc' = [pc EXCEPT ![c] = "done"]
            /\ registry_tools' = << >>
            /\ UNCHANGED <<tool, arguments, context, sdk, intent_result, handler_calls,
                           handler_result, effects, audit_logs, outcome, abandoned,
                           events, firestore, registrations, registry_result,
                           handler_input>>

\* POST /mcp/stream with any body: the request is answered at once, or its
\* tools/call reaches the registered handler.
Receive(c, req, j) ==
    /\ pc[c] = "new"
    /\ request' = [request EXCEPT ![c] = req]
    /\ IF Dispatches(registry_tools, req)
       THEN InvokeHandler(c, req.name, j)
       ELSE /\ pc' = [pc EXCEPT ![c] = "done"]
            /\ UNCHANGED <<tool, arguments, context, sdk, intent_result, handler_calls,
                           handler_result, effects, audit_logs, outcome, abandoned,
                           events, firestore, registryVars, handler_input>>

\* with_governance, lines 31-42: the intent check and the denial.
CheckIntent(c) ==
    /\ pc[c] = "check"
    /\ \E o \in SdkOutcomes :
         LET r == check_intent(Registry[tool[c]].intent, o)
             denied == IsDenied(r)
         IN /\ sdk' = [sdk EXCEPT ![c] = o]
            /\ intent_result' = [intent_result EXCEPT ![c] = r]
            /\ outcome' =
                 [outcome EXCEPT ![c] =
                    IF denied
                    THEN Raise(PermissionError(Registry[tool[c]].intent, r.reason))
                    ELSE @]
            /\ Enter(c, NextPc("check", denied), <<"check">>)
    /\ UNCHANGED <<tool, arguments, context, handler_result, effects, audit_logs, abandoned>>
    /\ UNCHANGED <<request, firestore, registryVars, handler_input>>

\* with_governance, lines 45-47: the handler returns or raises.
HandlerComplete(c) ==
    /\ pc[c] = "handler"
    /\ \E out \in HandlerOutcomesOf(tool[c]) :
         /\ handler_result' = [handler_result EXCEPT ![c] = handler(tool[c], out)]
         /\ effects' = [effects EXCEPT ![c] = handler_effects(tool[c], out)]
    /\ Enter(c, NextPc("handler", FALSE), << >>)
    /\ UNCHANGED <<tool, arguments, context, sdk, intent_result, audit_logs, outcome, abandoned>>
    /\ UNCHANGED <<request, firestore, registryVars, handler_input>>

\* with_governance, lines 48-71: log_audit of the failure and re-raise, or
\* log_audit of the success and return.  An exception of write_doc leaves
\* log_audit and with_governance uncaught.
LogAudit(c) ==
    /\ pc[c] = "audit"
    /\ \E sink \in SinkOutcomes :
         LET hr == handler_result[c]
             et == Registry[tool[c]].event_type
             entry ==
               IF hr.kind = "raise"
               THEN log_audit(FailedEventType(et), context[c]["user_id"],
                              FailurePayload(context[c], arguments[c], hr.error))
               ELSE log_audit(et, context[c]["user_id"],
                              SuccessPayload(context[c], arguments[c], hr.value))
         IN /\ audit_logs' = [audit_logs EXCEPT ![c] = write_doc(@, entry, sink)]
            /\ firestore' =
                 store_write_doc(firestore, "audit_logs", "", AutoId(c), entry, sink).db
            /\ outcome' =
                 [outcome EXCEPT ![c] =
                    IF sink = "fail" THEN Raise(AuditSinkError)
                    ELSE IF hr.kind = "none" THEN @ ELSE hr]
    /\ Enter(c, NextPc("audit", FALSE), <<"audit">>)
    /\ UNCHANGED <<tool, arguments, context, sdk, intent_result, handler_result, effects, abandoned>>
    /\ UNCHANGED <<request, registryVars, handler_input>>

\* Arguments of the two governance tools, where the handlers read them.
ArgIntent == "read patient record"
ArgEventType == "custom.event"
ArgPayload == JObj(NoMembers)

(***************************************************************************)
(* A handler registered without with_governance, called by tools/call      *)
(* directly: the five firebase.* handlers, policy.check_intent (which      *)
(* returns the decision of check_intent and enforces nothing) and          *)
(* audit.log (which appends a record of the caller's choosing).            *)
(***************************************************************************)
DirectHandler(c) ==
    /\ pc[c] = "run"
    /\ \E out \in HandlerOutcomes, o \in SdkOutcomes, sink \in SinkOutcomes,
          col \in Collections, doc_id \in DocIdArgs :
         LET t == tool[c]
             d == context_data(arguments[c].context)
             reads_context == t \in GovernanceTools /\ out = "ok"
             bad == reads_context /\ ~Validates(d)
             ctx == IF Validates(d) THEN model_validate(d) ELSE EmptyContext
             checks == t = "policy.check_intent" /\ out = "ok" /\ ~bad
             audits == t = "audit.log" /\ out = "ok" /\ ~bad
             writes == t = "firebase.write_doc" /\ out = "ok"
             updates == t = "firebase.update_doc" /\ out = "ok" /\ doc_id # ""
             r == check_intent(ArgIntent, o)
             entry == log_audit(ArgEventType, ctx["user_id"],
                                [context |-> model_dump(ctx), payload |-> ArgPayload])
             stored ==
               IF audits
               THEN store_write_doc(firestore, "audit_logs", "", AutoId(c), entry, sink)
               ELSE IF writes
               THEN store_write_doc(firestore, col, doc_id, AutoId(c), ArgData, sink)
               ELSE IF updates
               THEN update_doc(firestore, col, doc_id, ArgData, sink)
               ELSE [db |-> firestore, error |-> NoError]
             missing == t = "firebase.update_doc" /\ out = "ok" /\ doc_id = ""
             failed == bad \/ missing \/ stored.error # NoError
         IN /\ context' = [context EXCEPT ![c] = IF reads_context /\ ~bad THEN ctx ELSE @]
            /\ sdk' = [sdk EXCEPT ![c] = IF checks THEN o ELSE @]
            /\ intent_result' = [intent_result EXCEPT ![c] = IF checks THEN r ELSE @]
            /\ audit_logs' =
                 [audit_logs EXCEPT ![c] = IF audits THEN write_doc(@, entry, sink) ELSE @]
            /\ firestore' = stored.db
            /\ effects' =
                 [effects EXCEPT ![c] = IF failed THEN {} ELSE handler_effects(t, out)]
            /\ events' =
                 [events EXCEPT ![c] =
                    IF checks THEN Append(@, "check")
                    ELSE IF audits THEN Append(@, "audit") ELSE @]
            /\ handler_result' =
                 [handler_result EXCEPT ![c] =
                    IF bad THEN Raise(ValidationError)
                    ELSE IF missing THEN Raise(HandlerError)
                    ELSE IF audits /\ sink = "fail" THEN Raise(AuditSinkError)
                    ELSE IF stored.error # NoError THEN Raise(stored.error)
                    ELSE IF checks
                         THEN Return([tool |-> t,
                                      data |-> IF r.allowed THEN "allowed" ELSE "denied"])
                         ELSE handler(t, out)]
            /\ outcome' = [outcome EXCEPT ![c] = handler_result'[c]]
    /\ pc' = [pc EXCEPT ![c] = "done"]
    /\ UNCHANGED <<tool, arguments, handler_calls, abandoned>>
    /\ UNCHANGED <<request, registryVars, handler_input>>

\* The caller gives the request up (timeout, disconnect) while it is in flight.
Abandon(c) ==
    /\ pc[c] \in {"check", "handler", "audit", "run"}
    /\ abandoned[c] = "no"
    /\ abandoned' = [abandoned EXCEPT ![c] = IF handler_calls[c] > 0 THEN "after" ELSE "before"]
    /\ UNCHANGED <<pc, tool, arguments, context, sdk, intent_result, handler_calls,
                   handler_result, effects, audit_logs, outcome, events>>
    /\ UNCHANGED <<request, firestore, registryVars, handler_input>>

\* The event loop throws CancelledError into the abandoned request's task.
CancelDeliver(c) ==
    /\ abandoned[c] # "no"
    /\ pc[c] # "done"
    /\ AtSuspensionPoint(pc[c], tool[c])
    /\ pc' = [pc EXCEPT ![c] = "done"]
    /\ outcome' = [outcome EXCEPT ![c] = Raise(CancelledError)]
    /\ UNCHANGED <<tool, arguments, context, sdk, intent_result, handler_calls,
                   handler_result, effects, audit_logs, abandoned, events>>
    /\ UNCHANGED <<request, firestore, registryVars, handler_input>>

\* Inputs of Spec: two governed tools; a context object with two known
\* members and an unknown one, and a context that is no object.
GateTools == {"schedule.generate", "notify.send"}
CtxObject ==
    JObj([k \in {"user_id", "request_id", "trace"} |->
            CASE k = "user_id" -> JS("u1") [] k = "request_id" -> JS("r1")
              [] OTHER -> JS("x")])
GateContexts == {CtxObject, JStr("abc")}

Next ==
    \E c \in Calls :
        \/ \E t \in GateTools, j \in GateContexts : Start(c, t, j)
        \/ CheckIntent(c)
        \/ HandlerComplete(c)
        \/ LogAudit(c)
        \/ Abandon(c)
        \/ CancelDeliver(c)

Spec == Init /\ [][Next]_vars

(***************************************************************************)
(* Properties of the governance pipeline, checked under Spec.              *)
(***************************************************************************)
IsPrefix(a, b) == Len(a) <= Len(b) /\ \A i \in 1..Len(a) : a[i] = b[i]
Count(s, e) == Cardinality({i \in DOMAIN s : s[i] = e})

GovCall(c) == pc[c] # "new" /\ tool[c] \in DomainTools
Checked(c) == "check" \in Range(events[c])
Accepted(c) == GovCall(c) /\ Checked(c) /\ intent_result[c].allowed
Denied(c) == GovCall(c) /\ Checked(c) /\ ~intent_result[c].allowed

\* C1: a governed call whose intent check answered allowed=false never
\* invokes the wrapped handler and fails with the intent-denied error whose
\* message carries the intent and the reason.
C1_DeniedNeverRunsHandler ==
    \A c \in Calls :
        Denied(c) =>
            /\ handler_calls[c] = 0
            /\ "handler" \notin Range(events[c])
            /\ pc[c] = "done"
            /\ outcome[c].kind = "raise"
            /\ outcome[c].error.type = "PermissionError"
            /\ outcome[c].error.message =
                 "Intent '" \o Registry[tool[c]].intent \o "' denied: "
                     \o intent_result[c].reason

C1_Witness ==
    \E c \in Calls :
        /\ Denied(c)
        /\ sdk[c] = "InvalidTokenException"
        /\ handler_calls[c] = 0
        /\ outcome[c].error.type = "PermissionError"

\* C2 as claimed: every accepted governed invocation leaves exactly one
\* audit record, whatever the handler and the audit sink do.
C2_ExactlyOneAuditRecord ==
    \A c \in Calls :
        Accepted(c) =>
            /\ Len(audit_logs[c]) <= 1
            /\ pc[c] = "done" => Len(audit_logs[c]) = 1

\* C2 amended: for every accepted governed invocation the audit write is
\* attempted exactly once, after the handler returned or raised, and at most
\* one audit record is written: exactly one when the sink's write succeeds,
\* none when the sink's write fails (the sink's error then reaches the caller).
C2_OneAuditAttempt ==
    \A c \in Calls :
        Accepted(c) =>
            /\ Len(audit_logs[c]) <= 1
            /\ Count(events[c], "audit") <= 1
            /\ Len(audit_logs[c]) <= Count(events[c], "audit")
            /\ pc[c] = "done" =>
                 /\ Count(events[c], "audit") = 1
                 /\ Len(audit_logs[c]) = 1 <=> outcome[c].error # AuditSinkError

C2_Witness ==
    \E c, d \in Calls :
        /\ Accepted(c) /\ pc[c] = "done" /\ Len(audit_logs[c]) = 1
        /\ Accepted(d) /\ pc[d] = "done" /\ Len(audit_logs[d]) = 0
        /\ outcome[d].error = AuditSinkError

\* C3: within one governed call the intent check comes before the handler's
\* execution, which comes before the audit write, whatever other governed
\* calls do in between.
C3_CheckHandlerAuditOrder ==
    \A c \in Calls :
        GovCall(c) => IsPrefix(events[c], <<"check", "handler", "audit">>)

C3_Witness ==
    \E c, d \in Calls :
        /\ c # d
        /\ GovCall(c) /\ events[c] = <<"check", "handler", "audit">>
        /\ GovCall(d) /\ events[d] = <<"check", "handler">> /\ pc[d] = "audit"

\* C4: a denied governed call writes no audit record and does not touch the
\* audit sink.
C4_DenialNotAudited ==
    \A c \in Calls :
        Denied(c) =>
            /\ audit_logs[c] = << >>
            /\ "audit" \notin Range(events[c])

C4_Witness ==
    \E c, d \in Calls :
        /\ Denied(c) /\ pc[c] = "done" /\ audit_logs[c] = << >>
        /\ Accepted(d) /\ Len(audit_logs[d]) = 1

\* C5: an exception inside the authorization collaborator is a denial:
\* check_intent answers allowed=false with a reason, the governed call fails
\* with the intent-denied error and the handler is not invoked.
C5_CheckErrorIsDenial ==
    \A c \in Calls :
        (GovCall(c) /\ Checked(c) /\ sdk[c] # "token") =>
            /\ ~intent_result[c].allowed
            /\ intent_result[c].reason # ""
            /\ handler_calls[c] = 0
            /\ pc[c] = "done"
            /\ outcome[c].error.type = "PermissionError"

C5_Witness ==
    \E c \in Calls :
        /\ GovCall(c) /\ Checked(c) /\ sdk[c] = "ConnectionError"
        /\ ~intent_result[c].allowed
        /\ outcome[c].error.type = "PermissionError"

\* The audit record that the failure of request c calls for.
IsFailureRecord(c, rec) ==
    /\ rec.event_type = Registry[tool[c]].event_type \o ".failed"
    /\ rec.payload = [context |-> context[c],
                      arguments |-> arguments[c],
                      error |-> handler_result[c].error.message]

\* The audit record that the success of request c calls for.
IsSuccessRecord(c, rec) ==
    /\ rec.event_type = Registry[tool[c]].event_type
    /\ rec.payload = [context |-> context[c],
                      arguments |-> arguments[c],
                      result |-> handler_result[c].value]

HandlerFailed(c) == Accepted(c) /\ pc[c] = "done" /\ handler_result[c].kind = "raise"
HandlerSucceeded(c) == Accepted(c) /\ pc[c] = "done" /\ handler_result[c].kind = "return"

\* C6 as claimed: when the handler of an accepted governed call fails, one
\* record eventType + ".failed" with payload {context, arguments, error} is
\* written and the original error is re-raised unchanged.
C6_FailureAuditedAndReraised ==
    \A c \in Calls :
        HandlerFailed(c) =>
            /\ Len(audit_logs[c]) = 1
            /\ IsFailureRecord(c, audit_logs[c][1])
            /\ outcome[c] = handler_result[c]

\* C6 amended: when the handler of an accepted governed call fails and the
\* audit write succeeds, one record eventType + ".failed" with payload
\* {context, arguments, error} is written and the original error is re-raised
\* unchanged; when the audit write itself fails, no record is written and the
\* audit sink's error is raised to the caller in place of the handler's.
C6_FailureAuditedUnlessSinkFails ==
    \A c \in Calls :
        HandlerFailed(c) =>
            \/ /\ Len(audit_logs[c]) = 1
               /\ IsFailureRecord(c, audit_logs[c][1])
               /\ outcome[c] = handler_result[c]
            \/ /\ audit_logs[c] = << >>
               /\ outcome[c] = Raise(AuditSinkError)

C6_Witness ==
    \E c \in Calls :
        /\ HandlerFailed(c)
        /\ Len(audit_logs[c]) = 1
        /\ IsFailureRecord(c, audit_logs[c][1])
        /\ outcome[c].error = HandlerError

\* C7 as claimed: when the handler of an accepted governed call succeeds,
\* one record eventType with payload {context, arguments, result} is written
\* and the caller gets the handler's result unchanged.
C7_SuccessAuditedAndReturned ==
    \A c \in Calls :
        HandlerSucceeded(c) =>
            /\ Len(audit_logs[c]) = 1
            /\ IsSuccessRecord(c, audit_logs[c][1])
            /\ outcome[c] = Return(handler_result[c].value)

\* C7 amended: when the handler of an accepted governed call succeeds and
\* the audit write succeeds, one record eventType with payload {context,
\* arguments, result} is written and the caller gets the handler's result
\* unchanged; when the audit write fails, no record is written and the caller
\* gets the audit sink's error instead of the result.
C7_SuccessAuditedUnlessSinkFails ==
    \A c \in Calls :
        HandlerSucceeded(c) =>
            \/ /\ Len(audit_logs[c]) = 1
               /\ IsSuccessRecord(c, audit_logs[c][1])
               /\ outcome[c] = Return(handler_result[c].value)
            \/ /\ audit_logs[c] = << >>
               /\ outcome[c] = Raise(AuditSinkError)

C7_Witness ==
    \E c \in Calls :
        /\ HandlerSucceeded(c)
        /\ Len(audit_logs[c]) = 1
        /\ IsSuccessRecord(c, audit_logs[c][1])
        /\ outcome[c] = Return(Result(tool[c]))

\* C8: a governed call that its caller abandons after the handler has
\* started still attempts its audit write; the abandonment is never turned
\* into a cancellation between the handler's start and the audit write.
C8_AuditAttemptedDespiteAbandon ==
    \A c \in Calls :
        (GovCall(c) /\ handler_calls[c] > 0 /\ pc[c] = "done") =>
            /\ "audit" \in Range(events[c])
            /\ outcome[c].error # CancelledError

C8_Witness ==
    \E c \in Calls :
        /\ GovCall(c)
        /\ abandoned[c] = "after"
        /\ pc[c] = "done"
        /\ events[c] = <<"check", "handler", "audit">>

(***************************************************************************)
(* SpecContext: one governed tool called with every shape of               *)
(* arguments["context"].                                                   *)
(***************************************************************************)
ContextTools == {"ocr.extract_text"}

Members(ks, v) == [k \in ks |-> v]

ContextArgs ==
    {JAbsent, JNull, JObj(NoMembers), JStr(""), JStr("abc"), JInt("7"),
     JObj(Members({"user_id"}, JS("u1"))),
     JObj(Members(ContextFields, JS("v"))),
     JObj(Members({"user_id"}, JNone)),
     JObj(Members({"user_id"}, JI("7"))),
     JObj(Members({"trace"}, JI("7"))),
     CtxObject}

NextContext ==
    \E c \in SurfaceCalls :
        \/ \E t \in ContextTools, j \in ContextArgs : Start(c, t, j)
        \/ CheckIntent(c)
        \/ HandlerComplete(c)
        \/ LogAudit(c)
        \/ Abandon(c)
        \/ CancelDeliver(c)

SpecContext == Init /\ [][NextContext]_vars

\* The context the claim expects for arguments["context"] = j: the string
\* members of an object, null for every other field, and no context at all
\* for anything that is not an object.
ContextAsClaimed(j) ==
    [k \in ContextFields |->
       IF j.t = "obj" /\ k \in DOMAIN j.o /\ j.o[k].t = "str" THEN j.o[k] ELSE JNone]

\* C9: context extraction of a governed call never fails: whatever
\* arguments["context"] is, the call goes on to the authorization check with
\* missing fields null and a malformed context degraded to no context.
C9_ContextExtractionNeverFails ==
    \A c \in Calls :
        GovCall(c) =>
            /\ outcome[c].error # ValidationError
            /\ pc[c] = "check" \/ Checked(c) \/ outcome[c].error = CancelledError
            /\ context[c] = ContextAsClaimed(arguments[c].context)

(***************************************************************************)
(* SpecTools: every registered tool called once.                           *)
(***************************************************************************)
ToolsContexts == {JAbsent}

NextTools ==
    \E c \in SurfaceCalls :
        \/ \E t \in ToolNames, j \in ToolsContexts : Start(c, t, j)
        \/ CheckIntent(c)
        \/ HandlerComplete(c)
        \/ LogAudit(c)
        \/ DirectHandler(c)
        \/ Abandon(c)
        \/ CancelDeliver(c)

SpecTools == Init /\ [][NextTools]_vars

\* The request's handler ran only after its own intent check answered allowed.
AllowedCheckBefore(c) ==
    /\ Len(events[c]) >= 1
    /\ events[c][1] = "check"
    /\ intent_result[c].allowed

Acted(c) == pc[c] # "new" /\ (handler_calls[c] > 0 \/ effects[c] # {})

\* C10 as claimed: every domain handler reachable by tools/call, the raw
\* store CRUD firebase.* included, runs only behind the governed adapter: no
\* tools/call reaches the store, the LLM or the notification service without
\* a preceding allowed authorization check of that same call.
C10_EveryHandlerGoverned ==
    \A c \in Calls : Acted(c) => AllowedCheckBefore(c)

\* C10 amended: every OCR, parsing, drug, scheduling, adherence and
\* notification handler reachable by tools/call runs only behind the
\* governed adapter, with a preceding allowed authorization check of that
\* same call; the raw store CRUD tools firebase.* and the tools
\* policy.check_intent and audit.log are registered without the adapter, and
\* firebase.* and audit.log reach the store with no authorization check.
C10_DomainHandlersGoverned ==
    \A c \in Calls :
        Acted(c) =>
            /\ tool[c] \in DomainTools => AllowedCheckBefore(c)
            /\ ~AllowedCheckBefore(c) => tool[c] \in FirebaseTools \cup GovernanceTools
            /\ tool[c] \in FirebaseTools \cup {"audit.log"} => ~Checked(c)

C10_Witness ==
    \E c \in Calls :
        /\ tool[c] = "notify.send"
        /\ "notify" \in effects[c]
        /\ AllowedCheckBefore(c)
        /\ events[c][2] = "handler"

(***************************************************************************)
(* SpecStore: governed calls that leave audit records, next to the raw     *)
(* store tools firebase.write_doc and firebase.update_doc.                 *)
(***************************************************************************)
StoreTools == {"med.log_action", "firebase.write_doc", "firebase.update_doc"}

NextStore ==
    \E c \in Calls :
        \/ \E t \in StoreTools : Start(c, t, JAbsent)
        \/ CheckIntent(c)
        \/ HandlerComplete(c)
        \/ LogAudit(c)
        \/ DirectHandler(c)
        \/ Abandon(c)
        \/ CancelDeliver(c)

SpecStore == Init /\ [][NextStore]_vars

\* C11: audit records are append-only: every record that a request's audit
\* write put into audit_logs is still there with its original content,
\* whatever tools/call requests were served since.
C11_AuditRecordsAppendOnly ==
    \A c \in Calls :
        \A i \in DOMAIN audit_logs[c] :
            firestore["audit_logs"][AutoId(c)] = <<audit_logs[c][i]>>

\* C12: a tools/call of a governed tool performs the intent check at most
\* once, whatever the handler and the audit write do afterwards: exactly once
\* when the call has finished without being cancelled during the check.
C12_AtMostOneCheck ==
    \A c \in Calls :
        GovCall(c) =>
            /\ Count(events[c], "check") <= 1
            /\ handler_calls[c] <= 1
            /\ (pc[c] = "done" /\ outcome[c].error \notin {ValidationError, CancelledError})
                  => Count(events[c], "check") = 1

C12_Witness ==
    \E c, d \in Calls :
        /\ GovCall(c) /\ pc[c] = "done" /\ handler_result[c].kind = "raise"
        /\ Count(events[c], "check") = 1 /\ Count(events[c], "audit") = 1
        /\ GovCall(d) /\ pc[d] = "done" /\ outcome[d].error = AuditSinkError
        /\ Count(events[d], "check") = 1

(***************************************************************************)
(* SpecRegistry: a ToolRegistry of its own, from empty, under any sequence *)
(* of add_tool, list_tools and get_handler calls.                          *)
(***************************************************************************)
MaxRegistrations == 3

RegistryNames == {"rx.validate", "notify.send", "audit.log"}
\* A version stands for one spec (its description) and one handler.
Versions == {"v1", "v2"}

InitRegistry ==
    /\ InitRequests
    /\ registry_tools = << >>
    /\ registrations = << >>
    /\ registry_result = NoRegistryResult

AddTool(n, v) ==
    /\ Len(registrations) < MaxRegistrations
    /\ LET r == add_tool(registry_tools, ToolSpec(n, v), v)
       IN /\ registry_tools' = r.tools
          /\ registrations' =
               Append(registrations,
                      [name |-> n, spec |-> ToolSpec(n, v), handler |-> v,
                       ok |-> r.error = NoRegistryError])
          /\ registry_result' =
               [op |-> "add_tool", name |-> n, error |-> r.error,
                specs |-> << >>, handler |-> ""]
    /\ UNCHANGED gateVars

ListTools ==
    /\ registry_result' =
         [op |-> "list_tools", name |-> "", error |-> NoRegistryError,
          specs |-> list_tools(registry_tools), handler |-> ""]
    /\ UNCHANGED <<registry_tools, registrations>>
    /\ UNCHANGED gateVars

GetHandler(n) ==
    /\ LET r == get_handler(registry_tools, n)
       IN registry_result' =
            [op |-> "get_handler", name |-> n, error |-> r.error,
             specs |-> << >>, handler |-> r.handler]
    /\ UNCHANGED <<registry_tools, registrations>>
    /\ UNCHANGED gateVars

NextRegistry ==
    \/ \E n \in RegistryNames, v \in Versions : AddTool(n, v)
    \/ ListTools
    \/ \E n \in RegistryNames : GetHandler(n)

SpecRegistry == InitRegistry /\ [][NextRegistry]_vars

\* The add_tool calls whose name no earlier call had used.
IsFirstUse(h, i) == \A j \in 1..(i - 1) : h[j].name # h[i].name
RECURSIVE FirstUses(_)
FirstUses(h) ==
    IF h = << >> THEN << >>
    ELSE LET n == Len(h)
             front == FirstUses(SubSeq(h, 1, n - 1))
         IN IF IsFirstUse(h, n) THEN Append(front, h[n]) ELSE front

Succeeded(reg) == reg.ok

\* C13: registering a name that is already present fails with the
\* duplicate-tool error and leaves the registry as it was (the first
\* registration's spec and handler in place, order unchanged); registering a
\* name not yet present always succeeds.
C13_DuplicateRejected ==
    /\ \A i \in DOMAIN registrations : registrations[i].ok <=> IsFirstUse(registrations, i)
    /\ registry_tools =
         [i \in DOMAIN FirstUses(registrations) |->
            [name |-> FirstUses(registrations)[i].name,
             spec |-> FirstUses(registrations)[i].spec,
             handler |-> FirstUses(registrations)[i].handler]]
    /\ registry_result.op = "add_tool" =>
         registry_result.error =
            IF registrations[Len(registrations)].ok
            THEN NoRegistryError
            ELSE [type |-> "ValueError",
                  message |-> "Tool '" \o registry_result.name \o "' already registered"]

C13_Witness ==
    /\ Len(registrations) = 3
    /\ registrations[1].ok /\ registrations[2].ok /\ ~registrations[3].ok
    /\ registrations[3].name = registrations[1].name
    /\ registrations[3].handler # registrations[1].handler
    /\ registry_result.op = "add_tool"
    /\ registry_result.error.type = "ValueError"
    /\ Len(registry_tools) = 2
    /\ registry_tools[1].handler = registrations[1].handler

\* C14: after any sequence of register calls, failed duplicates included,
\* list() returns exactly the specs of the successfully registered tools,
\* each once, in registration order.
C14_ListInRegistrationOrder ==
    registry_result.op = "list_tools" =>
        LET done == SelectSeq(registrations, Succeeded)
        IN /\ registry_result.specs = [i \in DOMAIN done |-> done[i].spec]
           /\ \A i, j \in DOMAIN registry_result.specs :
                i # j => registry_result.specs[i].name # registry_result.specs[j].name

C14_Witness ==
    /\ registry_result.op = "list_tools"
    /\ Len(registrations) = 3
    /\ registrations[1].ok /\ ~registrations[2].ok /\ registrations[3].ok
    /\ registry_result.specs = <<registrations[1].spec, registrations[3].spec>>

\* C15: resolving a name that was never registered fails with the
\* unknown-tool error; resolving a registered name returns exactly the
\* handler registered under that name, never another tool's.
C15_ResolveExact ==
    registry_result.op = "get_handler" =>
        LET n == registry_result.name
            regs == {i \in DOMAIN registrations :
                        registrations[i].ok /\ registrations[i].name = n}
        IN IF regs = {}
           THEN /\ registry_result.error.type = "KeyError"
                /\ registry_result.handler = ""
           ELSE /\ registry_result.error = NoRegistryError
                /\ \A i \in regs : registry_result.handler = registrations[i].handler

C15_Witness ==
    /\ registry_result.op = "get_handler"
    /\ registry_result.error = NoRegistryError
    /\ Len(registry_tools) = 2
    /\ registry_tools[2].name = registry_result.name
    /\ registry_tools[2].handler = registry_result.handler
    /\ registry_tools[1].handler # registry_result.handler

(***************************************************************************)
(* SpecProtocol: one POST /mcp/stream with any body, up to its response.   *)
(***************************************************************************)
ProtocolTools == {"med.log_action", "notify.send", "firebase.read_doc", "policy.check_intent"}
ProtocolContexts == {JAbsent, JStr("abc")}

RawBody(b) == [NoRequest EXCEPT !.body = b]

ProtocolRequests ==
    {RawBody("empty"), RawBody("invalid_json"), RawBody("non_object")}
    \cup {Envelope(v, "tools/call", "object", "med.log_action", "7") : v \in {"", "1.0"}}
    \cup {Envelope("2.0", "", "object", "med.log_action", "7")}
    \cup {Envelope("2.0", "tools/call", ps, "", "7") : ps \in {"object", "absent", "null", "array"}}
    \cup {Envelope("2.0", "tools/call", "object", n, "7") :
            n \in ProtocolTools \cup {"no.such_tool"}}
    \cup {Envelope("2.0", m, "absent", "", "7") : m \in {"tools/list", "tools/unknown"}}
    \cup {Envelope("2.0", "initialize", ps, "", "7") : ps \in {"absent", "object", "options"}}
    \cup {Envelope("2.0", m, "absent", "", "7") : m \in {"resources/list", "prompts/list"}}
    \cup {ResourcesRead("object", u, "7") : u \in {"", "file:///a"}}
    \cup {ResourcesRead("null", "", "7")}
    \cup {Envelope("2.0", "prompts/get", "object", n, "7") : n \in {"", "greeting"}}
    \cup {Envelope("2.0", m, "absent", "", "") :
            m \in {"tools/list", "notifications/initialized"}}

NextProtocol ==
    \E c \in SurfaceCalls :
        \/ \E req \in ProtocolRequests, j \in ProtocolContexts : Receive(c, req, j)
        \/ CheckIntent(c)
        \/ HandlerComplete(c)
        \/ LogAudit(c)
        \/ DirectHandler(c)
        \/ Abandon(c)
        \/ CancelDeliver(c)

SpecProtocol == Init /\ [][NextProtocol]_vars

\* The request is a well-formed envelope for the method tools/call.
IsToolsCall(c) ==
    /\ pc[c] = "done"
    /\ request[c].body = "object"
    /\ request[c].jsonrpc = "2.0"
    /\ request[c].method = "tools/call"

\* Request c resolved no tool, ran no handler, made no intent check and
\* wrote no document (a request's writes go to its own fresh document id).
NothingRan(c) ==
    /\ tool[c] = ""
    /\ handler_calls[c] = 0
    /\ events[c] = << >>
    /\ audit_logs[c] = << >>
    /\ effects[c] = {}
    /\ \A col \in Collections : firestore[col][AutoId(c)] = << >>

\* C16: for a tools/call on a registered tool, any error the handler raises,
\* of any type, the gate's intent-denied error included, is answered with
\* error code -32603 and a message that carries the error's message, never
\* with another code.
C16_HandlerErrorIsInternalError ==
    \A c \in Calls :
        (IsToolsCall(c) /\ tool[c] \in ToolNames /\ outcome[c].kind = "raise"
           /\ outcome[c].error # CancelledError) =>
            /\ Response(c).kind = "error"
            /\ Response(c).code = -32603
            /\ Response(c).message = "Tool execution error: " \o outcome[c].error.message

\* C17: a tools/call with a name that is not registered is answered with
\* error code -32601 and the message "Tool not found: <name>", and that
\* answer is given only when the name is not registered.
C17_ToolNotFoundIffUnregistered ==
    \A c \in Calls :
        (IsToolsCall(c) /\ request[c].name # "" /\ request[c].params = "object") =>
            (request[c].name \notin RegisteredNames(registry_tools)
               <=> (/\ Response(c).kind = "error"
                    /\ Response(c).code = -32601
                    /\ Response(c).message = "Tool not found: " \o request[c].name))

\* C18: a tools/call whose params carry no name is answered with error code
\* -32602; no registry lookup is used, no handler runs, no intent check is
\* made and no audit record is written.
C18_MissingNameIsInvalidParams ==
    \A c \in Calls :
        (IsToolsCall(c) /\ request[c].name = "") =>
            /\ Response(c).kind = "error"
            /\ Response(c).code = -32602
            /\ NothingRan(c)

\* C19: a request envelope whose jsonrpc member is missing or is not exactly
\* "2.0", or whose method is missing, is answered with error code -32600
\* before dispatch: no method is routed, no handler runs and no audit record
\* is written.
C19_InvalidRequestRejected ==
    \A c \in Calls :
        (/\ pc[c] # "new"
         /\ request[c].body = "object"
         /\ request[c].jsonrpc # "2.0" \/ request[c].method = "") =>
            /\ pc[c] = "done"
            /\ Response(c).kind = "error"
            /\ Response(c).code = -32600
            /\ Response(c).id = request[c].id
            /\ NothingRan(c)

C19_Witness ==
    \E c \in Calls :
        /\ pc[c] = "done"
        /\ request[c] = Envelope("1.0", "tools/call", "object", "med.log_action", "7")
        /\ Response(c).code = -32600
        /\ NothingRan(c)

\* C20: a request body that is not well-formed structured data (an empty
\* body, invalid JSON, or JSON that is not an object) is answered with error
\* code -32700.
C20_MalformedBodyIsParseError ==
    \A c \in Calls :
        (pc[c] = "done" /\ request[c].body \in {"empty", "invalid_json", "non_object"}) =>
            /\ Response(c).kind = "error"
            /\ Response(c).code = -32700

HookMethods == {"resources/list", "resources/read", "prompts/list", "prompts/get"}
Routes == {"initialize", "tools/list", "tools/call"} \cup HookMethods

\* Request c passed the envelope checks of mcp_stream and was routed by
\* handle_mcp_request.
Routed(c) == pc[c] = "done" /\ mcp_stream(request[c]) = NoResponse

\* C21: a routed request for resources/list, resources/read, prompts/list or
\* prompts/get, none of whose hooks is wired, and a routed request for any
\* method outside the fixed set of routes, is answered with error code
\* -32601.
C21_AbsentHookIsMethodNotFound ==
    \A c \in Calls :
        (/\ Routed(c)
         /\ \/ request[c].method \in HookMethods /\ ServerHooks = {}
            \/ request[c].method \notin Routes) =>
            /\ Response(c).kind = "error"
            /\ Response(c).code = -32601

\* C22: every response produced, on every path of parse, validation, routing
\* and execution, is either a result or an error object with an integer code
\* and a message: never both, never neither.
C22_ExactlyOneOfResultOrError ==
    \A c \in Calls :
        Response(c) # NoResponse =>
            \/ /\ Response(c).kind = "result"
               /\ Response(c).code = 0 /\ Response(c).message = ""
            \/ /\ Response(c).kind = "error"
               /\ Response(c).code # 0 /\ Response(c).message # ""
               /\ Response(c).result = NoResult /\ Response(c).tools = << >>
               /\ Response(c).init = NoInit

\* C23: a finished request envelope with a non-null id has a response, and
\* a finished request envelope with a null id (a notification) has none.
C23_OneResponseUnlessNotification ==
    \A c \in Calls :
        (pc[c] = "done" /\ request[c].body = "object") =>
            (request[c].id # "" <=> Response(c) # NoResponse)

ErrorCodes == {PARSE_ERROR, INVALID_REQUEST, METHOD_NOT_FOUND, INVALID_PARAMS, INTERNAL_ERROR}

\* C24: every finished request that did not produce a result, whether it
\* failed in parse, validation, routing or the handler, has a response
\* that is an error object with one of the protocol's integer codes and a
\* message; no exception leaves the request without one.
C24_EveryFailureIsStructuredError ==
    \A c \in Calls :
        (pc[c] = "done" /\ Response(c).kind # "result") =>
            /\ Response(c).kind = "error"
            /\ Response(c).code \in ErrorCodes
            /\ Response(c).message # ""

ResourceHooks == {"_list_resources_handler", "_read_resource_handler"}
PromptHooks == {"_list_prompts_handler", "_get_prompt_handler"}

\* C25: a routed initialize request is answered with a result that holds
\* the protocol version, the server's identity and the declared
\* capabilities; tools is always declared, resources only if a resources
\* hook is wired and prompts only if a prompts hook is wired.
C25_InitializeDeclaresWiredCapabilities ==
    \A c \in Calls :
        (Routed(c) /\ request[c].method = "initialize") =>
            /\ Response(c).kind = "result"
            /\ Response(c).init.protocolVersion = "2024-11-05"
            /\ Response(c).init.serverInfo = "medicos-mcp-backend"
            /\ "tools" \in Response(c).init.capabilities
            /\ "resources" \in Response(c).init.capabilities
                  => ServerHooks \cap ResourceHooks # {}
            /\ "prompts" \in Response(c).init.capabilities
                  => ServerHooks \cap PromptHooks # {}

(***************************************************************************)
(* tools/list over a registry of any content: the registrations are made   *)
(* while the server is built, the requests are served afterwards.          *)
(***************************************************************************)
ListRequests ==
    {Envelope("2.0", "tools/list", "absent", "", "7"),
     Envelope("2.0", "tools/call", "object", "audit.log", "7"),
     Envelope("2.0", "tools/call", "object", "no.such_tool", "7")}

\* register_tools during create_server, before any request is received.
Register(n) ==
    /\ \A c \in Calls : pc[c] = "new"
    /\ AddTool(n, "v1")

NextList ==
    \/ \E n \in RegistryNames : Register(n)
    \/ \E c \in Calls :
         \/ \E req \in ListRequests : Receive(c, req, JAbsent)
         \/ DirectHandler(c)

SpecList == InitRegistry /\ [][NextList]_vars

IsToolsList(c) == Routed(c) /\ request[c].method = "tools/list"

\* C26: tools/list is answered with exactly the specs of the successfully
\* registered tools in registration order, as many specs as there are
\* registered tools and none when nothing is registered, whatever other
\* requests have been served.
C26_ToolsListIsRegistry ==
    \A c \in Calls :
        IsToolsList(c) =>
            LET done == SelectSeq(registrations, Succeeded)
            IN /\ Response(c).kind = "result"
               /\ Response(c).tools = [i \in DOMAIN done |-> done[i].spec]
               /\ Len(Response(c).tools) = Cardinality(RegisteredNames(registry_tools))
               /\ registrations = << >> => Response(c).tools = << >>

C26_Witness ==
    \E c, b \in Calls :
        /\ IsToolsList(c)
        /\ pc[b] = "done" /\ request[b].name = "audit.log" /\ outcome[b].kind = "return"
        /\ Len(registrations) = 3
        /\ registrations[1].ok /\ ~registrations[2].ok /\ registrations[3].ok
        /\ Response(c).tools = <<registrations[1].spec, registrations[3].spec>>

\* The tool surface: each tool name with its required parameters.
SurfaceRequired ==
    ("policy.check_intent" :> {"intent"}) @@
    ("audit.log" :> {"event_type"}) @@
    ("firebase.store_file" :> {"path", "content"}) @@
    ("firebase.write_doc" :> {"collection", "data"}) @@
    ("firebase.update_doc" :> {"collection", "doc_id", "data"}) @@
    ("firebase.read_doc" :> {"collection", "doc_id"}) @@
    ("firebase.query" :> {"collection"}) @@
    ("ocr.extract_text" :> {"file_path", "prescription_id"}) @@
    ("rx.parse_text" :> {"prescription_id"}) @@
    ("rx.expand_abbrev" :> {}) @@
    ("rx.validate" :> {"prescription_id"}) @@
    ("drug.normalize" :> {}) @@
    ("drug.rules" :> {"drug_name"}) @@
    ("schedule.generate" :> {"prescription_id", "user_id"}) @@
    ("schedule.adjust" :> {"schedule_id"}) @@
    ("notify.send" :> {"user_id"}) @@
    ("med.log_action" :> {"user_id", "schedule_id", "event_index", "action"}) @@
    ("adherence.analyze" :> {"user_id", "schedule_id"})

\* C27: after startup the registered tool names are exactly the 18 names of
\* the tool surface, each registered once with the surface's required
\* parameters, and no registration of the startup sequence raised the
\* duplicate-name error.
C27_StartupRegistersSurface ==
    /\ Len(registry_tools) = 18
    /\ RegisteredNames(registry_tools) = DOMAIN SurfaceRequired
    /\ \A i \in DOMAIN registry_tools :
         registry_tools[i].spec.required = SurfaceRequired[registry_tools[i].name]
    /\ StartupErrors = << >>

C27_Witness ==
    \E c \in Calls :
        /\ IsToolsList(c)
        /\ Len(Response(c).tools) = 18
        /\ \E i \in DOMAIN Response(c).tools :
             /\ Response(c).tools[i].name = "med.log_action"
             /\ Response(c).tools[i].required =
                  {"user_id", "schedule_id", "event_index", "action"}

(***************************************************************************)
(* The core handlers of schedule.adjust, schedule.generate and rx.validate *)
(* over the documents they read and write.  A document id that is not in   *)
(* the store reads as None; "" stands for a missing argument.              *)
(***************************************************************************)
DomainCollections == {"audit_logs", "schedules", "prescriptions", "medicines"}
MedicineId(c, i) == "med" \o ToString(c) \o "_" \o ToString(i)
DomainDocIds ==
    {"s1", "s9", "p1", "p9"} \cup {AutoId(c) : c \in Calls}
      \cup {MedicineId(c, i) : c \in Calls, i \in {1, 2}}
EmptyDomainStore == [col \in DomainCollections |-> [id \in DomainDocIds |-> << >>]]

\* firebase_client.read_doc: << >> is None.
read_doc(db, col, id) == IF id \in DOMAIN db[col] THEN db[col][id] ELSE << >>

\* dict.get(key) and dict.get(key, default)
PyNone == "<None>"
get_or(d, k, default) == IF k \in DOMAIN d THEN d[k] ELSE default
get(d, k) == get_or(d, k, PyNone)

ValueError(msg) == [type |-> "ValueError", message |-> msg]
AttributeError == [type |-> "AttributeError", message |-> "object has no attribute 'get'"]
LLMError == [type |-> "APIConnectionError", message |-> "Connection error."]

\* What llm_client.complete_json does: it raises, returns JSON that is no
\* object, or returns an object; events and status are the members the
\* handler reads from the object ("" is a missing status member).
Completion(k, evs, st) == [kind |-> k, events |-> evs, status |-> st]
FailedCompletions == {Completion("raise", << >>, ""), Completion("not_object", << >>, "")}

\* Schedule events: a morning dose, the same with its time shifted, with
\* another dose and without a dose member, and an evening dose of another
\* medicine, on time and shifted.
Event(m, d, t) == [medicine_name |-> m, dose |-> d, time |-> t]
Morning == Event("amoxicillin", "500mg", "08:00")
MorningLate == Event("amoxicillin", "500mg", "08:30")
MorningHalf == Event("amoxicillin", "250mg", "08:00")
MorningNoDose == [medicine_name |-> "amoxicillin", time |-> "08:00"]
Evening == Event("ibuprofen", "200mg", "20:00")
EveningLate == Event("ibuprofen", "200mg", "21:00")

StoredSchedules == {<< >>, <<Morning>>, <<Morning, Evening>>}
\* The adjusted_events of a completion: unchanged or shifted events, and
\* events added, removed, reordered or changed in medicine or dose.
EventSeqs ==
    StoredSchedules
      \cup {<<MorningLate>>, <<MorningLate, Evening>>, <<MorningLate, EveningLate>>}
      \cup {<<MorningHalf>>, <<MorningNoDose>>, <<Evening>>, <<Morning, MorningHalf>>,
            <<Evening, Morning>>, <<Morning, Evening, Evening>>}
ScheduleDoc(evs) == [user_id |-> "u1", schedule_events |-> evs, status |-> "active"]

AdjustCompletions ==
    FailedCompletions \cup {Completion("object", evs, "") : evs \in EventSeqs}
ScheduleIdArgs == {"", "s1", "s9"}

\* Faulty variant of adjust_rejection: the dose is not compared.
adjust_rejection_ignores_dose(orig, adj) ==
    IF Len(adj) # Len(orig)
    THEN ValueError("Cannot add or remove medicines from schedule")
    ELSE LET bad == {i \in DOMAIN orig :
                       get(orig[i], "medicine_name") # get(adj[i], "medicine_name")}
         IN IF bad = {} THEN NoError
            ELSE ValueError("Cannot change medicine at index "
                            \o ToString((CHOOSE i \in bad : \A j \in bad : i <= j) - 1))

\* _core_adjust, lines 216-224: the error of the server-side validation, or
\* NoError when the adjusted events pass it.
adjust_rejection(orig, adj) ==
    IF Len(adj) # Len(orig)
    THEN ValueError("Cannot add or remove medicines from schedule")
    ELSE LET medicine == {i \in DOMAIN orig :
                            get(orig[i], "medicine_name") # get(adj[i], "medicine_name")}
             dose == {i \in DOMAIN orig : get(orig[i], "dose") # get(adj[i], "dose")}
             bad == medicine \cup dose
             first == CHOOSE i \in bad : \A j \in bad : i <= j
         IN IF bad = {} THEN NoError
            ELSE IF first \in medicine
            THEN ValueError("Cannot change medicine at index " \o ToString(first - 1))
            ELSE ValueError("Cannot change dosage at index " \o ToString(first - 1))

\* What a core handler did: the store afterwards, what it returned or
\* raised, and the collaborators it used.
CoreOutcome(db, r, fx) == [db |-> db, result |-> r, effects |-> fx]

\* _core_adjust.  last_adjusted_at, a timestamp, is left out of the update.
core_adjust(db, schedule_id, llm, sink) ==
    LET schedule == read_doc(db, "schedules", schedule_id)
        original_events == get_or(schedule[1], "schedule_events", << >>)
        rejection == adjust_rejection(original_events, llm.events)
        update_data == [schedule_events |-> llm.events,
                        adjustment_reason |-> "user_request",
                        adjustment_changes |-> << >>,
                        requires_user_confirmation |-> FALSE]
        updated == update_doc(db, "schedules", schedule_id, update_data, sink)
    IN IF schedule_id = ""
       THEN CoreOutcome(db, Raise(ValueError("Missing required field 'schedule_id'")), {})
       ELSE IF schedule = << >>
       THEN CoreOutcome(db, Raise(ValueError("Schedule " \o schedule_id \o " not found")),
                        {"store_read"})
       ELSE IF llm.kind = "raise"
       THEN CoreOutcome(db, Raise(LLMError), {"store_read", "llm"})
       ELSE IF llm.kind = "not_object"
       THEN CoreOutcome(db, Raise(AttributeError), {"store_read", "llm"})
       ELSE IF rejection # NoError
       THEN CoreOutcome(db, Raise(rejection), {"store_read", "llm"})
       ELSE IF updated.error # NoError
       THEN CoreOutcome(db, Raise(updated.error), {"store_read", "llm"})
       ELSE CoreOutcome(updated.db,
                        Return([tool |-> "schedule.adjust", data |-> schedule_id]),
                        {"store_read", "llm", "store_write"})

\* with_governance, lines 45-47, for a core handler that did r after reading
\* the input inp.
CoreComplete(c, inp, r) ==
    /\ handler_input' = [handler_input EXCEPT ![c] = inp]
    /\ firestore' = r.db
    /\ handler_result' = [handler_result EXCEPT ![c] = r.result]
    /\ effects' = [effects EXCEPT ![c] = r.effects]
    /\ Enter(c, NextPc("handler", FALSE), << >>)
    /\ UNCHANGED <<tool, arguments, context, sdk, intent_result, audit_logs, outcome,
                   abandoned, request, registryVars>>

CoreAdjust(c) ==
    /\ pc[c] = "handler"
    /\ tool[c] = "schedule.adjust"
    /\ \E schedule_id \in ScheduleIdArgs, llm \in AdjustCompletions, sink \in SinkOutcomes :
         CoreComplete(c,
                      [NoInput EXCEPT !.doc_id = schedule_id, !.llm = llm,
                                      !.before = read_doc(firestore, "schedules", schedule_id)],
                      core_adjust(firestore, schedule_id, llm, sink))

\* The server after create_server, with the store db.
InitDomain(db) ==
    /\ InitCalls
    /\ firestore = db
    /\ registry_tools = StartupTools
    /\ registrations = << >>
    /\ registry_result = NoRegistryResult

InitAdjust ==
    \E db \in {EmptyDomainStore}
                \cup {doc_set(EmptyDomainStore, "schedules", "s1", ScheduleDoc(evs)) :
                        evs \in StoredSchedules}
                \cup {doc_set(EmptyDomainStore, "schedules", "s1", [user_id |-> "u1"])} :
        InitDomain(db)

NextAdjust ==
    \E c \in SurfaceCalls :
        \/ Start(c, "schedule.adjust", JAbsent)
        \/ CheckIntent(c)
        \/ CoreAdjust(c)
        \/ LogAudit(c)

SpecAdjust == InitAdjust /\ [][NextAdjust]_vars

\* The schedule events held by a document of the store.
events_of(doc) == IF doc = << >> THEN << >> ELSE get_or(doc[1], "schedule_events", << >>)

SameMedication(a, b) ==
    /\ Len(a) = Len(b)
    /\ \A i \in DOMAIN a :
         /\ get(a[i], "medicine_name") = get(b[i], "medicine_name")
         /\ get(a[i], "dose") = get(b[i], "dose")

C28_Step ==
    /\ \A id \in DomainDocIds :
         SameMedication(events_of(firestore["schedules"][id]),
                        events_of(firestore'["schedules"][id]))
    /\ \A c \in Calls :
         (/\ tool[c] = "schedule.adjust"
          /\ handler_result[c] = Pending /\ handler_result'[c] # Pending
          /\ handler_input'[c].before # << >>
          /\ handler_input'[c].llm.kind = "object"
          /\ ~SameMedication(events_of(handler_input'[c].before),
                             handler_input'[c].llm.events)) =>
             /\ handler_result'[c].kind = "raise"
             /\ firestore' = firestore

\* C28: every step of a schedule.adjust call, successful or failed, leaves
\* each stored schedule with the same number of events and the same
\* medicine_name and dose at every index; a call whose adjusted events add,
\* remove or change a medicine or a dose fails and leaves the store
\* unchanged.
C28_AdjustOnlyShiftsTiming == [][C28_Step]_vars

C28_Witness ==
    \E c \in Calls :
        /\ tool[c] = "schedule.adjust"
        /\ pc[c] = "done" /\ outcome[c].kind = "return"
        /\ Len(handler_input[c].llm.events) = 2
        /\ handler_input[c].llm.events # events_of(handler_input[c].before)
        /\ events_of(firestore["schedules"]["s1"]) = handler_input[c].llm.events

(***************************************************************************)
(* schedule.generate                                                       *)
(***************************************************************************)
Medicine(n) == [name |-> n, strength |-> "500mg", frequency |-> "TID"]
ParsedMedicines ==
    {<< >>, <<Medicine("amoxicillin")>>, <<Medicine("amoxicillin"), Medicine("ibuprofen")>>}
StoredStatuses == {PyNone, "validated", "needs_user_confirmation"}
PrescriptionDoc(meds, vs) ==
    [ocr_text |-> "Amoxicillin 500mg TID", parsed_medicines |-> meds,
     validation_status |-> vs, status |-> "parsed"]
\* The prescriptions a call can find: none, one that has not been parsed,
\* and parsed ones in every stored validation status.
StoredPrescriptions ==
    {EmptyDomainStore,
     doc_set(EmptyDomainStore, "prescriptions", "p1",
             [ocr_text |-> "Amoxicillin 500mg TID", status |-> "uploaded"])}
      \cup {doc_set(EmptyDomainStore, "prescriptions", "p1", PrescriptionDoc(meds, vs)) :
              meds \in ParsedMedicines, vs \in StoredStatuses}

PrescriptionIdArgs == {"", "p1", "p9"}
UserIdArgs == {"", "u1"}
GenerateCompletions ==
    FailedCompletions
      \cup {Completion("object", evs, "") : evs \in {<< >>, <<Morning, Evening>>}}
\* Which store write of the call fails: none (0), the write of the i-th
\* medicine document, then the schedule document, then the prescription.
FailPoints == 0..4

\* Faulty variant of generate_rejection: the validation status is not
\* checked.
generate_rejection_unvalidated(prescription_id, user_id, prescription) ==
    IF prescription_id = "" THEN ValueError("Missing required field 'prescription_id'")
    ELSE IF user_id = "" THEN ValueError("Missing required field 'user_id'")
    ELSE IF prescription = << >>
    THEN ValueError("Prescription " \o prescription_id \o " not found")
    ELSE IF get_or(prescription[1], "parsed_medicines", << >>) = << >>
    THEN ValueError("No medicines found. Run rx.parse_text first.")
    ELSE NoError

\* _core_generate, lines 36-55: the error of the checks made before the
\* completion is requested, or NoError.
generate_rejection(prescription_id, user_id, prescription) ==
    IF prescription_id = "" THEN ValueError("Missing required field 'prescription_id'")
    ELSE IF user_id = "" THEN ValueError("Missing required field 'user_id'")
    ELSE IF prescription = << >>
    THEN ValueError("Prescription " \o prescription_id \o " not found")
    ELSE IF get_or(prescription[1], "parsed_medicines", << >>) = << >>
    THEN ValueError("No medicines found. Run rx.parse_text first.")
    ELSE IF get(prescription[1], "validation_status") # "validated"
    THEN ValueError("Prescription not validated (status: "
                    \o get(prescription[1], "validation_status") \o ")")
    ELSE NoError

\* _core_generate for request c.  created_at, a timestamp, is left out of
\* the documents.
core_generate(db, c, prescription_id, user_id, llm, fail_at) ==
    LET prescription == read_doc(db, "prescriptions", prescription_id)
        medicines == get_or(prescription[1], "parsed_medicines", << >>)
        rejection == generate_rejection(prescription_id, user_id, prescription)
        n == Len(medicines)
        written == IF fail_at \in 1..n THEN fail_at - 1 ELSE n
        med_doc(i) == [user_id |-> user_id, prescription_id |-> prescription_id,
                       name |-> get(medicines[i], "name"),
                       strength |-> get(medicines[i], "strength"),
                       frequency |-> get(medicines[i], "frequency"),
                       status |-> "active"]
        with_medicines ==
          [db EXCEPT !["medicines"] =
             [id \in DomainDocIds |->
                IF \E i \in 1..written : id = MedicineId(c, i)
                THEN <<med_doc(CHOOSE i \in 1..written : id = MedicineId(c, i))>>
                ELSE @[id]]]
        schedule_doc == [user_id |-> user_id, prescription_id |-> prescription_id,
                         schedule_events |-> llm.events, status |-> "active"]
        with_schedule == doc_set(with_medicines, "schedules", AutoId(c), schedule_doc)
        updated == update_doc(with_schedule, "prescriptions", prescription_id,
                              [status |-> "scheduled", schedule_id |-> AutoId(c)],
                              IF fail_at = n + 2 THEN "fail" ELSE "ok")
    IN IF rejection # NoError
       THEN CoreOutcome(db, Raise(rejection),
                        IF prescription_id = "" \/ user_id = "" THEN {} ELSE {"store_read"})
       ELSE IF llm.kind = "raise"
       THEN CoreOutcome(db, Raise(LLMError), {"store_read", "llm"})
       ELSE IF llm.kind = "not_object"
       THEN CoreOutcome(db, Raise(AttributeError), {"store_read", "llm"})
       ELSE IF fail_at \in 1..(n + 1)
       THEN CoreOutcome(with_medicines, Raise(StoreError),
                        {"store_read", "llm"} \cup IF written > 0 THEN {"store_write"} ELSE {})
       ELSE IF updated.error # NoError
       THEN CoreOutcome(with_schedule, Raise(updated.error),
                        {"store_read", "llm", "store_write"})
       ELSE CoreOutcome(updated.db,
                        Return([tool |-> "schedule.generate", data |-> AutoId(c)]),
                        {"store_read", "llm", "store_write"})

CoreGenerate(c) ==
    /\ pc[c] = "handler"
    /\ tool[c] = "schedule.generate"
    /\ \E prescription_id \in PrescriptionIdArgs, user_id \in UserIdArgs,
          llm \in GenerateCompletions, fail_at \in FailPoints :
         CoreComplete(c,
                      [NoInput EXCEPT !.doc_id = prescription_id, !.user_id = user_id,
                                      !.llm = llm,
                                      !.before = read_doc(firestore, "prescriptions",
                                                          prescription_id)],
                      core_generate(firestore, c, prescription_id, user_id, llm, fail_at))

InitGenerate == \E db \in StoredPrescriptions : InitDomain(db)

NextGenerate ==
    \E c \in SurfaceCalls :
        \/ Start(c, "schedule.generate", JAbsent)
        \/ CheckIntent(c)
        \/ CoreGenerate(c)
        \/ LogAudit(c)

SpecGenerate == InitGenerate /\ [][NextGenerate]_vars

\* The prescription document exists, has a non-empty parsed_medicines list
\* and has validation_status "validated".
GenerateReady(doc) ==
    /\ doc # << >>
    /\ get_or(doc[1], "parsed_medicines", << >>) # << >>
    /\ get(doc[1], "validation_status") = "validated"

\* The request's medicine documents, schedule document and the mark on its
\* prescription are in the store.
Scheduled(db, inp, c) ==
    /\ db["schedules"][AutoId(c)] # << >>
    /\ \A i \in DOMAIN get_or(inp.before[1], "parsed_medicines", << >>) :
         db["medicines"][MedicineId(c, i)] # << >>
    /\ get(db["prescriptions"][inp.doc_id][1], "status") = "scheduled"
    /\ get(db["prescriptions"][inp.doc_id][1], "schedule_id") = AutoId(c)

C29_Step ==
    LET written == \E col \in {"medicines", "schedules", "prescriptions"} :
                       firestore'[col] # firestore[col]
        ran(c) == /\ tool[c] = "schedule.generate"
                  /\ handler_result[c] = Pending
                  /\ handler_result'[c] # Pending
    IN /\ written => \E c \in Calls : ran(c) /\ GenerateReady(handler_input'[c].before)
       /\ \A c \in Calls :
            ran(c) =>
              /\ handler_input'[c].before = read_doc(firestore, "prescriptions",
                                                     handler_input'[c].doc_id)
              /\ handler_result'[c].kind = "return" =>
                   /\ GenerateReady(handler_input'[c].before)
                   /\ Scheduled(firestore', handler_input'[c], c)
              /\ ~GenerateReady(handler_input'[c].before) =>
                   /\ handler_result'[c].kind = "raise"
                   /\ ~written

\* C29: a schedule.generate call writes medicine documents, a schedule
\* document or the prescription only when the prescription it names exists,
\* has a non-empty parsed_medicines list and has validation_status
\* "validated", and when it returns it has created them all and marked the
\* prescription "scheduled"; in every other case the call fails with the
\* medicines, schedules and prescriptions collections untouched.
C29_GenerateOnlyWhenValidated == [][C29_Step]_vars

C29_Witness ==
    \E c \in Calls :
        /\ tool[c] = "schedule.generate"
        /\ pc[c] = "done" /\ outcome[c].kind = "return"
        /\ Len(handler_input[c].before[1].parsed_medicines) = 2
        /\ Scheduled(firestore, handler_input[c], c)

(***************************************************************************)
(* rx.validate                                                             *)
(***************************************************************************)
MedicinesArgs == {<< >>, <<Medicine("amoxicillin")>>}
\* The validation_status member of the completion: missing, one of the two
\* values the prompt asks for, another string, or null.
ValidateCompletions ==
    FailedCompletions
      \cup {Completion("object", << >>, st) :
              st \in {"", "validated", "needs_user_confirmation", "invalid", PyNone}}

\* _core_validate
core_validate(db, prescription_id, medicines_arg, llm, sink) ==
    LET prescription == read_doc(db, "prescriptions", prescription_id)
        medicines == IF medicines_arg # << >> THEN medicines_arg
                     ELSE get_or(prescription[1], "parsed_medicines", << >>)
        validation_status ==
          IF llm.status = "" THEN "needs_user_confirmation" ELSE llm.status
        update_data ==
          [validation_status |-> validation_status,
           validation_issues |-> << >>,
           validation_recommendations |-> << >>,
           status |-> IF validation_status = "validated" THEN "validated"
                      ELSE "needs_user_confirmation"]
        updated == update_doc(db, "prescriptions", prescription_id, update_data, sink)
        read == IF medicines_arg = << >> THEN {"store_read"} ELSE {}
    IN IF prescription_id = ""
       THEN CoreOutcome(db, Raise(ValueError("Missing required field 'prescription_id'")),
                        {})
       ELSE IF medicines_arg = << >> /\ prescription = << >>
       THEN CoreOutcome(db,
                        Raise(ValueError("Prescription " \o prescription_id \o " not found")),
                        read)
       ELSE IF medicines = << >>
       THEN CoreOutcome(db,
                        Raise(ValueError("No medicines to validate. Run rx.parse_text first.")),
                        read)
       ELSE IF llm.kind = "raise"
       THEN CoreOutcome(db, Raise(LLMError), read \cup {"llm"})
       ELSE IF llm.kind = "not_object"
       THEN CoreOutcome(db, Raise(AttributeError), read \cup {"llm"})
       ELSE IF updated.error # NoError
       THEN CoreOutcome(db, Raise(updated.error), read \cup {"llm"})
       ELSE CoreOutcome(updated.db,
                        Return([tool |-> "rx.validate", data |-> validation_status]),
                        read \cup {"llm", "store_write"})

CoreValidate(c) ==
    /\ pc[c] = "handler"
    /\ tool[c] = "rx.validate"
    /\ \E prescription_id \in PrescriptionIdArgs, medicines \in MedicinesArgs,
          llm \in ValidateCompletions, sink \in SinkOutcomes :
         CoreComplete(c,
                      [NoInput EXCEPT !.doc_id = prescription_id, !.medicines = medicines,
                                      !.llm = llm,
                                      !.before = read_doc(firestore, "prescriptions",
                                                          prescription_id)],
                      core_validate(firestore, prescription_id, medicines, llm, sink))

NextValidate ==
    \E c \in SurfaceCalls :
        \/ Start(c, "rx.validate", JAbsent)
        \/ CheckIntent(c)
        \/ CoreValidate(c)
        \/ LogAudit(c)

SpecValidate == InitGenerate /\ [][NextValidate]_vars

C30_Step ==
    \A c \in Calls :
        (/\ tool[c] = "rx.validate"
         /\ handler_result[c] = Pending
         /\ handler_result'[c].kind = "return") =>
            LET returned == handler_result'[c].value.data
                stored == firestore'["prescriptions"][handler_input'[c].doc_id][1]
            IN /\ returned \in {"validated", "needs_user_confirmation"}
               /\ stored.validation_status = returned
               /\ stored.status = "validated" <=> stored.validation_status = "validated"

\* C30: when the core handler of rx.validate returns, the validation_status
\* it returns is "validated" or "needs_user_confirmation", the prescription
\* holds the same validation_status, and the prescription's status is
\* "validated" exactly when that validation_status is "validated".
C30_ValidationStatusIsOneOfTwo == [][C30_Step]_vars

(***************************************************************************)
(* The registry while the server answers requests.                         *)
(***************************************************************************)

\* C31: no step taken while requests are served (the receipt of any request,
\* whatever its method, and every step of a tool call, whatever its outcome)
\* adds, removes, reorders or replaces an entry of the registry.
C31_RegistryReadOnlyWhileServing == [][registry_tools' = registry_tools]_vars

C31_Witness ==
    \E c \in Calls :
        /\ Routed(c)
        /\ IsToolsCall(c)
        /\ outcome[c].kind = "return"
        /\ registry_tools = StartupTools

(***************************************************************************)
(* Two governed calls in flight at once, checked under Spec.               *)
(***************************************************************************)

\* The audit record with_governance writes for call c, from c's own tool,
\* context, arguments and handler outcome.
OwnAuditEntry(c) ==
    LET hr == handler_result[c]
        et == Registry[tool[c]].event_type
    IN IF hr.kind = "raise"
       THEN log_audit(FailedEventType(et), context[c]["user_id"],
                      FailurePayload(context[c], arguments[c], hr.error))
       ELSE log_audit(et, context[c]["user_id"],
                      SuccessPayload(context[c], arguments[c], hr.value))

\* C32: in every interleaving of the governed calls, each call's outcome and
\* its audit record are those its own authorization decision, arguments and
\* handler outcome give: a denied call fails with its own denial and leaves
\* no record, an accepted call that ends uncancelled leaves its own record
\* and returns or raises what its handler did (or the audit sink's error and
\* no record), the store holds under each call's document exactly what that
\* call wrote, and whatever the other calls did, a call that has not ended
\* can take its next step and a call that has not started can start.
C32_RequestsIndependent ==
    \A c \in Calls :
        LET stored == firestore["audit_logs"][AutoId(c)]
        IN /\ stored = audit_logs[c]
           /\ Denied(c) =>
                /\ stored = << >>
                /\ outcome[c] =
                     Raise(PermissionError(Registry[tool[c]].intent,
                                           intent_result[c].reason))
           /\ (Accepted(c) /\ pc[c] = "done" /\ outcome[c].error # CancelledError) =>
                /\ stored \in {<< >>, <<OwnAuditEntry(c)>>}
                /\ outcome[c] =
                     IF stored = << >> THEN Raise(AuditSinkError) ELSE handler_result[c]
           /\ pc[c] = "new" => ENABLED (\E t \in GateTools, j \in GateContexts : Start(c, t, j))
           /\ pc[c] = "check" => ENABLED CheckIntent(c)
           /\ pc[c] = "handler" => ENABLED HandlerComplete(c)
           /\ pc[c] = "audit" => ENABLED LogAudit(c)

C32_Witness ==
    \E c, d \in Calls :
        /\ Denied(c) /\ pc[c] = "done"
        /\ Accepted(d) /\ pc[d] = "done"
        /\ outcome[d].kind = "return"
        /\ firestore["audit_logs"][AutoId(d)] = <<OwnAuditEntry(d)>>
        /\ firestore["audit_logs"][AutoId(c)] = << >>

\* C33: every response envelope, result or error, carries the id of the
\* request it answers; a request whose body holds no readable envelope
\* (invalid JSON, a JSON value that is no object) or whose envelope has no id
\* is answered with a null id.
C33_ResponseEchoesRequestId ==
    \A c \in Calls :
        Response(c).kind \in {"result", "error"} => Response(c).id = request[c].id

C33_Witness ==
    \E c \in Calls :
        /\ IsToolsCall(c)
        /\ Response(c).kind = "error"
        /\ Response(c).code = INTERNAL_ERROR
        /\ request[c].id = "7"
        /\ Response(c).id = "7"

(***************************************************************************)
(* Governed calls that omit a required argument: schedule.generate,        *)
(* schedule.adjust and rx.validate called through tools/call.              *)
(***************************************************************************)
RequiredTools == {"schedule.generate", "schedule.adjust", "rx.validate"}

InitRequired ==
    \E db \in {EmptyDomainStore,
                doc_set(doc_set(EmptyDomainStore, "prescriptions", "p1",
                                PrescriptionDoc(<<Medicine("amoxicillin")>>, "validated")),
                        "schedules", "s1", ScheduleDoc(<<Morning>>))} :
        InitDomain(db)

NextRequired ==
    \E c \in SurfaceCalls :
        \/ \E t \in RequiredTools : Start(c, t, JAbsent)
        \/ CheckIntent(c)
        \/ CoreGenerate(c)
        \/ CoreAdjust(c)
        \/ CoreValidate(c)
        \/ LogAudit(c)

SpecRequired == InitRequired /\ [][NextRequired]_vars

\* The arguments the core handler of tool t read lack a field that the
\* tool's input schema requires.
OmitsRequired(t, inp) ==
    \/ "prescription_id" \in required_params[t] /\ inp.doc_id = ""
    \/ "schedule_id" \in required_params[t] /\ inp.doc_id = ""
    \/ "user_id" \in required_params[t] /\ inp.user_id = ""

\* The step in which the core handler of call c runs without a required
\* argument.
RejectsStep(c) ==
    /\ handler_result[c] = Pending
    /\ handler_result'[c] # Pending
    /\ OmitsRequired(tool[c], handler_input'[c])

\* The step in which such a call ends.
RejectedEndsStep(c) ==
    /\ pc[c] = "audit"
    /\ pc'[c] = "done"
    /\ OmitsRequired(tool[c], handler_input[c])

\* Nothing of the store changes in the step except the audit document of
\* call c.
OnlyOwnAuditDocument(c) ==
    /\ \A col \in DomainCollections \ {"audit_logs"} : firestore'[col] = firestore[col]
    /\ \A id \in DomainDocIds \ {AutoId(c)} :
         firestore'["audit_logs"][id] = firestore["audit_logs"][id]

FailedRecordWritten(c) ==
    /\ firestore["audit_logs"][AutoId(c)] = << >>
    /\ Len(firestore'["audit_logs"][AutoId(c)]) = 1
    /\ firestore'["audit_logs"][AutoId(c)][1].event_type = tool[c] \o ".failed"

C35_Step ==
    \A c \in Calls :
        /\ RejectsStep(c) =>
             /\ handler_result'[c].kind = "raise"
             /\ firestore' = firestore
             /\ events'[c] = <<"check", "handler">>
        /\ RejectedEndsStep(c) =>
             /\ Count(events'[c], "check") = 1
             /\ OnlyOwnAuditDocument(c)
             /\ FailedRecordWritten(c)
             /\ Response(c)'.kind = "error"
             /\ Response(c)'.code = INTERNAL_ERROR

C35_AmendedStep ==
    \A c \in Calls :
        /\ RejectsStep(c) =>
             /\ handler_result'[c].kind = "raise"
             /\ firestore' = firestore
             /\ events'[c] = <<"check", "handler">>
        /\ RejectedEndsStep(c) =>
             /\ Count(events'[c], "check") = 1
             /\ Count(events'[c], "audit") = 1
             /\ OnlyOwnAuditDocument(c)
             /\ IF outcome'[c].error = AuditSinkError
                THEN firestore' = firestore
                ELSE FailedRecordWritten(c)
             /\ Response(c)'.kind = "error"
             /\ Response(c)'.code = INTERNAL_ERROR

OcrTextArgs == {"", "Ibuprofen 200mg"}

\* The completion rx.parse_text receives: its medicines member, << >> when
\* the member is missing.
ParseCompletion(meds) ==
    [kind |-> "object", events |-> << >>, status |-> "", medicines |-> meds]
ParseCompletions ==
    FailedCompletions \cup {ParseCompletion(meds) : meds \in {<< >>, <<Medicine("ibuprofen")>>}}

\* _core_parse
core_parse(db, prescription_id, ocr_text_arg, llm, sink) ==
    LET prescription == read_doc(db, "prescriptions", prescription_id)
        ocr_text == IF ocr_text_arg # "" THEN ocr_text_arg
                    ELSE get_or(prescription[1], "ocr_text", "")
        update_data == [parsed_medicines |-> llm.medicines,
                        parsing_warnings |-> << >>,
                        status |-> "parsed"]
        updated == update_doc(db, "prescriptions", prescription_id, update_data, sink)
        read == IF ocr_text_arg = "" THEN {"store_read"} ELSE {}
    IN IF prescription_id = ""
       THEN CoreOutcome(db, Raise(ValueError("Missing required field 'prescription_id'")),
                        {})
       ELSE IF ocr_text_arg = "" /\ prescription = << >>
       THEN CoreOutcome(db,
                        Raise(ValueError("Prescription " \o prescription_id \o " not found")),
                        read)
       ELSE IF ocr_text = ""
       THEN CoreOutcome(db,
                        Raise(ValueError("No OCR text available. Run ocr.extract_text first.")),
                        read)
       ELSE IF llm.kind = "raise"
       THEN CoreOutcome(db, Raise(LLMError), read \cup {"llm"})
       ELSE IF llm.kind = "not_object"
       THEN CoreOutcome(db, Raise(AttributeError), read \cup {"llm"})
       ELSE IF updated.error # NoError
       THEN CoreOutcome(db, Raise(updated.error), read \cup {"llm"})
       ELSE CoreOutcome(updated.db,
                        Return([tool |-> "rx.parse_text", data |-> prescription_id]),
                        read \cup {"llm", "store_write"})

CoreParse(c) ==
    /\ pc[c] = "handler"
    /\ tool[c] = "rx.parse_text"
    /\ \E prescription_id \in PrescriptionIdArgs, ocr_text \in OcrTextArgs,
          llm \in ParseCompletions, sink \in SinkOutcomes :
         CoreComplete(c,
                      [doc_id |-> prescription_id, user_id |-> "", medicines |-> << >>,
                       llm |-> llm, ocr_text |-> ocr_text,
                       before |-> read_doc(firestore, "prescriptions", prescription_id)],
                      core_parse(firestore, prescription_id, ocr_text, llm, sink))

PipelineTools == {"rx.parse_text", "rx.validate", "schedule.generate"}

\* A prescription whose text was extracted, and one that was parsed into two
\* medicines; neither has been validated.
InitPipeline ==
    \E db \in {doc_set(EmptyDomainStore, "prescriptions", "p1",
                        [ocr_text |-> "Amoxicillin 500mg TID", status |-> "ocr_completed"]),
                doc_set(EmptyDomainStore, "prescriptions", "p1",
                        [ocr_text |-> "Amoxicillin 500mg TID",
                         parsed_medicines |->
                           <<Medicine("amoxicillin"), Medicine("ibuprofen")>>,
                         status |-> "parsed"])} :
        InitDomain(db)

NextPipeline ==
    \E c \in Calls :
        \/ \E t \in PipelineTools : Start(c, t, JAbsent)
        \/ CheckIntent(c)
        \/ CoreParse(c)
        \/ CoreValidate(c)
        \/ CoreGenerate(c)
        \/ LogAudit(c)

SpecPipeline == InitPipeline /\ [][NextPipeline]_vars

\* The parsed_medicines of the prescription document call c read.
StoredMedicines(c) ==
    IF handler_input[c].before = << >> THEN << >>
    ELSE get_or(handler_input[c].before[1], "parsed_medicines", << >>)

\* The medicine list the rx.validate call d sent to the validator.
Examined(d) ==
    IF handler_input[d].medicines # << >> THEN handler_input[d].medicines
    ELSE StoredMedicines(d)

JudgedValidated(d) ==
    /\ tool[d] = "rx.validate"
    /\ handler_result[d] = Return([tool |-> "rx.validate", data |-> "validated"])

\* C34: whenever schedule.generate succeeds for a prescription that was not
\* validated before the calls, the stored parsed_medicines it schedules are
\* a list that an rx.validate call examined and judged "validated".
C34_GenerateSchedulesValidatedList ==
    \A c \in Calls :
        (tool[c] = "schedule.generate" /\ handler_result[c].kind = "return") =>
            \E d \in Calls \ {c} : JudgedValidated(d) /\ Examined(d) = StoredMedicines(c)

(***************************************************************************)
(* med.log_action and adherence.analyze over the schedules, med_logs and   *)
(* adherence_stats collections.  Timestamps are left out of the documents. *)
(***************************************************************************)
AdherenceCollections == {"audit_logs", "schedules", "med_logs", "adherence_stats"}
LogIds == {"l1", "l2", "l3"}
AdherenceDocIds == {"s1", "s9"} \cup LogIds \cup {AutoId(c) : c \in Calls}
EmptyAdherenceStore ==
    [col \in AdherenceCollections |-> [id \in AdherenceDocIds |-> << >>]]

\* The event_index argument: missing, or an integer.
NoIndex == [given |-> FALSE, n |-> 0]
Index(i) == [given |-> TRUE, n |-> i]
EventIndexArgs == {NoIndex} \cup {Index(i) : i \in -3..2}
ActionArgs == {"", "taken", "snoozed", "dropped"}
LogActions == {"taken", "skipped", "snoozed"}

\* str(event_index) in the error message
IndexStr(ix) == IF ix.given THEN ToString(ix.n) ELSE "None"

IndexError == [type |-> "IndexError", message |-> "list index out of range"]

\* schedule_events[event_index] of a Python list: a negative index counts
\* from the end; 0 stands for an index out of range.
Subscript(evs, n) ==
    IF 0 <= n /\ n < Len(evs) THEN n + 1
    ELSE IF n < 0 /\ -n <= Len(evs) THEN Len(evs) + n + 1
    ELSE 0

\* _core_log for request c
core_log(db, c, user_id, schedule_id, event_index, action, sink) ==
    LET schedule == read_doc(db, "schedules", schedule_id)
        schedule_events == get_or(schedule[1], "schedule_events", << >>)
        at == Subscript(schedule_events, event_index.n)
        event == schedule_events[at]
        log_entry == [user_id |-> user_id, schedule_id |-> schedule_id,
                      event_index |-> event_index.n,
                      medicine_name |-> get(event, "medicine_name"),
                      scheduled_time |-> get(event, "time"),
                      action |-> action, notes |-> ""]
        written == store_write_doc(db, "med_logs", "", AutoId(c), log_entry, sink)
    IN IF user_id = ""
       THEN CoreOutcome(db, Raise(ValueError("Missing required field 'user_id'")), {})
       ELSE IF schedule_id = ""
       THEN CoreOutcome(db, Raise(ValueError("Missing required field 'schedule_id'")), {})
       ELSE IF action \notin LogActions
       THEN CoreOutcome(db,
                        Raise(ValueError("Missing or invalid 'action' (must be 'taken', 'skipped', or 'snoozed')")),
                        {})
       ELSE IF schedule = << >>
       THEN CoreOutcome(db, Raise(ValueError("Schedule " \o schedule_id \o " not found")),
                        {"store_read"})
       ELSE IF ~event_index.given \/ event_index.n >= Len(schedule_events)
       THEN CoreOutcome(db,
                        Raise(ValueError("Invalid event_index: " \o IndexStr(event_index))),
                        {"store_read"})
       ELSE IF at = 0
       THEN CoreOutcome(db, Raise(IndexError), {"store_read"})
       ELSE IF written.error # NoError
       THEN CoreOutcome(db, Raise(written.error), {"store_read"})
       ELSE CoreOutcome(written.db,
                        Return([tool |-> "med.log_action", data |-> AutoId(c)]),
                        {"store_read", "store_write"})

CoreLog(c) ==
    /\ pc[c] = "handler"
    /\ tool[c] = "med.log_action"
    /\ \E user_id \in UserIdArgs, schedule_id \in ScheduleIdArgs,
          event_index \in EventIndexArgs, action \in ActionArgs, sink \in SinkOutcomes :
         CoreComplete(c,
                      [doc_id |-> schedule_id, user_id |-> user_id, medicines |-> << >>,
                       llm |-> NoCompletion, event_index |-> event_index,
                       action |-> action,
                       before |-> read_doc(firestore, "schedules", schedule_id)],
                      core_log(firestore, c, user_id, schedule_id, event_index, action,
                               sink))

InitLog ==
    \E db \in {EmptyAdherenceStore}
                \cup {doc_set(EmptyAdherenceStore, "schedules", "s1", ScheduleDoc(evs)) :
                        evs \in StoredSchedules} :
        InitDomain(db)

NextLog ==
    \E c \in SurfaceCalls :
        \/ Start(c, "med.log_action", JAbsent)
        \/ CheckIntent(c)
        \/ CoreLog(c)
        \/ LogAudit(c)

SpecLog == InitLog /\ [][NextLog]_vars

\* The arguments of a med.log_action call name an action to log and an
\* index into the schedule's events.
ValidLogInput(inp) ==
    /\ inp.action \in LogActions
    /\ inp.event_index.given
    /\ 0 <= inp.event_index.n
    /\ inp.event_index.n < Len(events_of(inp.before))

C36_Step ==
    \A c \in Calls :
        (tool[c] = "med.log_action" /\ handler_result[c] = Pending
           /\ handler_result'[c] # Pending) =>
            LET inp == handler_input'[c]
            IN /\ firestore'["med_logs"] # firestore["med_logs"] => ValidLogInput(inp)
               /\ (/\ inp.user_id # "" /\ inp.before # << >>
                   /\ inp.action \in LogActions
                   /\ ~ValidLogInput(inp)) =>
                    /\ firestore' = firestore
                    /\ handler_result'[c] =
                         Raise(ValueError("Invalid event_index: "
                                          \o IndexStr(inp.event_index)))

\* C36: med.log_action writes a med_logs entry only when action is one of
\* taken, skipped, snoozed and event_index is an index into the schedule's
\* events (0 <= event_index < length); with a valid action on a schedule
\* that exists, any other event_index (absent, negative, or >= length) makes
\* it fail with the invalid-index error and write nothing.
C36_LogOnlyAtValidIndex == [][C36_Step]_vars

\* A med_logs document; age is how many days before the analysis its
\* timestamp lies.
Log(schedule_id, action, age) ==
    [user_id |-> "u1", schedule_id |-> schedule_id, action |-> action, age |-> age]

\* The med_logs collection before an analysis: no logs, one or two doses
\* taken today, a mix of actions over two days, and a log of another
\* schedule.
StoredLogs ==
    {<< >>,
     <<Log("s1", "taken", 0)>>,
     <<Log("s1", "taken", 0), Log("s1", "taken", 0)>>,
     <<Log("s1", "taken", 0), Log("s1", "skipped", 0), Log("s1", "taken", 1)>>,
     <<Log("s1", "snoozed", 0), Log("s9", "taken", 0)>>}

LogId(i) == "l" \o ToString(i)
WithLogs(db, logs) ==
    [db EXCEPT !["med_logs"] =
       [id \in AdherenceDocIds |->
          IF \E i \in DOMAIN logs : id = LogId(i)
          THEN <<logs[CHOOSE i \in DOMAIN logs : id = LogId(i)]>>
          ELSE @[id]]]

\* The days argument: args.get("days", 7)
DaysArgs == {NoIndex} \cup {Index(i) : i \in -1..2}
days_of(arg) == IF arg.given THEN arg.n ELSE 7

\* A quotient of two integers, as the float it is computed to.
Quotient(num, den) == [num |-> num, den |-> den]

AnalyzeCompletions == FailedCompletions \cup {Completion("object", << >>, "")}

\* _core_analyze, line 137: the rate as a quotient, 0.0 as 0/1.
adherence_rate(taken_count, total_expected) ==
    IF total_expected > 0 THEN Quotient(taken_count * 100, total_expected)
    ELSE Quotient(0, 1)

\* _core_analyze for request c.  The query finds the logs of the schedule
\* whose timestamp is not older than days.
core_analyze(db, c, user_id, schedule_id, days_arg, llm, sink) ==
    LET days == days_of(days_arg)
        schedule == read_doc(db, "schedules", schedule_id)
        schedule_events == get_or(schedule[1], "schedule_events", << >>)
        logs == {id \in AdherenceDocIds :
                   /\ db["med_logs"][id] # << >>
                   /\ db["med_logs"][id][1].schedule_id = schedule_id
                   /\ db["med_logs"][id][1].age <= days}
        count(a) == Cardinality({id \in logs : db["med_logs"][id][1].action = a})
        total_expected == Len(schedule_events) * days
        stats_doc == [user_id |-> user_id, schedule_id |-> schedule_id,
                      period_days |-> days, total_expected |-> total_expected,
                      taken_count |-> count("taken"),
                      skipped_count |-> count("skipped"),
                      snoozed_count |-> count("snoozed"),
                      adherence_rate |-> adherence_rate(count("taken"), total_expected)]
        written == store_write_doc(db, "adherence_stats", "", AutoId(c), stats_doc, sink)
    IN IF user_id = ""
       THEN CoreOutcome(db, Raise(ValueError("Missing required field 'user_id'")), {})
       ELSE IF schedule_id = ""
       THEN CoreOutcome(db, Raise(ValueError("Missing required field 'schedule_id'")), {})
       ELSE IF schedule = << >>
       THEN CoreOutcome(db, Raise(ValueError("Schedule " \o schedule_id \o " not found")),
                        {"store_read"})
       ELSE IF llm.kind = "raise"
       THEN CoreOutcome(db, Raise(LLMError), {"store_read", "llm"})
       ELSE IF llm.kind = "not_object"
       THEN CoreOutcome(db, Raise(AttributeError), {"store_read", "llm"})
       ELSE IF written.error # NoError
       THEN CoreOutcome(db, Raise(written.error), {"store_read", "llm"})
       ELSE CoreOutcome(written.db,
                        Return([tool |-> "adherence.analyze", data |-> AutoId(c)]),
                        {"store_read", "llm", "store_write"})

CoreAnalyze(c) ==
    /\ pc[c] = "handler"
    /\ tool[c] = "adherence.analyze"
    /\ \E user_id \in UserIdArgs, schedule_id \in ScheduleIdArgs, days \in DaysArgs,
          llm \in AnalyzeCompletions, sink \in SinkOutcomes :
         CoreComplete(c,
                      [doc_id |-> schedule_id, user_id |-> user_id, medicines |-> << >>,
                       llm |-> llm, days |-> days,
                       before |-> read_doc(firestore, "schedules", schedule_id)],
                      core_analyze(firestore, c, user_id, schedule_id, days, llm, sink))

InitAnalyze ==
    \E evs \in StoredSchedules, logs \in StoredLogs :
        InitDomain(WithLogs(doc_set(EmptyAdherenceStore, "schedules", "s1",
                                    ScheduleDoc(evs)),
                            logs))

NextAnalyze ==
    \E c \in SurfaceCalls :
        \/ Start(c, "adherence.analyze", JAbsent)
        \/ CheckIntent(c)
        \/ CoreAnalyze(c)
        \/ LogAudit(c)

SpecAnalyze == InitAnalyze /\ [][NextAnalyze]_vars

\* The adherence_stats documents of the store.
Stats == {firestore["adherence_stats"][id][1] :
            id \in {i \in AdherenceDocIds : firestore["adherence_stats"][i] # << >>}}

\* C37: the adherence_rate of every stored adherence_stats document is
\* taken_count / total_expected * 100 when total_expected, the number of
\* schedule events times days, is positive and 0 otherwise, and lies between
\* 0 and 100.
C37_AdherenceRateIsPercentage ==
    \A st \in Stats :
        /\ st.adherence_rate =
             IF st.total_expected > 0
             THEN Quotient(st.taken_count * 100, st.total_expected)
             ELSE Quotient(0, 1)
        /\ 0 <= st.adherence_rate.num
        /\ st.adherence_rate.num <= 100 * st.adherence_rate.den

(***************************************************************************)
(* notify.send: the sends of _core_send to device tokens or to a topic.    *)
(***************************************************************************)
\* The device_tokens argument: missing, one token as a string, or a list.
NoTokens == [kind |-> "absent", items |-> << >>]
TokenStr(t) == [kind |-> "str", items |-> <<t>>]
TokenList(ts) == [kind |-> "list", items |-> ts]
DeviceTokenArgs ==
    {NoTokens, TokenList(<< >>), TokenStr("t1")}
      \cup {TokenList(ts) : ts \in {<<"t1">>, <<"t1", "t2">>, <<"t1", "t1">>,
                                     <<"t1", "t2", "t3">>}}
TopicArgs == {"", "user_u1"}
\* The fcm_tokens of the user's profile; << >> also when there is no profile.
ProfileTokens == {<< >>, <<"t9">>}

\* What fcm.send does for each of the tokens, in order.
FcmOutcomes(n) == [1..n -> SinkOutcomes]

RuntimeError ==
    [type |-> "RuntimeError",
     message |-> "Firebase not initialized. Call init_firebase() first."]

NoSends == [success_count |-> 0, failed_tokens |-> << >>, attempted |-> << >>]

\* Faulty variant of send_each: the loop ends at the first failed send.
RECURSIVE send_each_until_failure(_, _, _, _)
send_each_until_failure(tokens, fcm, i, acc) ==
    IF i > Len(tokens) THEN acc
    ELSE IF fcm[i] = "ok"
    THEN send_each_until_failure(tokens, fcm, i + 1,
                                 [acc EXCEPT !.success_count = @ + 1,
                                             !.attempted = Append(@, tokens[i])])
    ELSE [acc EXCEPT !.failed_tokens = Append(@, tokens[i]),
                     !.attempted = Append(@, tokens[i])]

\* _core_send, lines 83-93: the loop over the tokens from the i-th on.
\* attempted lists the tokens a message was built and sent for.
RECURSIVE send_each(_, _, _, _)
send_each(tokens, fcm, i, acc) ==
    IF i > Len(tokens) THEN acc
    ELSE IF fcm[i] = "ok"
    THEN send_each(tokens, fcm, i + 1,
                   [acc EXCEPT !.success_count = @ + 1,
                               !.attempted = Append(@, tokens[i])])
    ELSE send_each(tokens, fcm, i + 1,
                   [acc EXCEPT !.failed_tokens = Append(@, tokens[i]),
                               !.attempted = Append(@, tokens[i])])

\* The tokens _core_send sends to: the argument, a string wrapped into a
\* list, or the profile's tokens when neither tokens nor topic are given.
effective_tokens(device_tokens, topic, profile) ==
    IF device_tokens.items # << >> THEN device_tokens.items
    ELSE IF topic = "" THEN profile
    ELSE << >>

\* _core_send
core_send(db, user_id, device_tokens, topic, profile, fcm_ready, fcm) ==
    LET tokens == effective_tokens(device_tokens, topic, profile)
        sends == send_each(tokens, fcm, 1, NoSends)
        read == IF device_tokens.items = << >> /\ topic = "" THEN {"store_read"} ELSE {}
    IN IF user_id = ""
       THEN CoreOutcome(db, Raise(ValueError("Missing required field 'user_id'")), {})
       ELSE IF tokens = << >> /\ topic = ""
       THEN CoreOutcome(db,
                        Raise(ValueError("Must provide either 'device_tokens' or 'topic'")),
                        read)
       ELSE IF ~fcm_ready
       THEN CoreOutcome(db, Raise(RuntimeError), read)
       ELSE IF tokens # << >>
       THEN CoreOutcome(db,
                        Return([tool |-> "notify.send", data |-> "",
                                success |-> sends.success_count > 0,
                                success_count |-> sends.success_count,
                                failed_tokens |-> sends.failed_tokens]),
                        read \cup {"notify"})
       ELSE IF fcm[1] = "ok"
       THEN CoreOutcome(db,
                        Return([tool |-> "notify.send", data |-> "",
                                success |-> TRUE, success_count |-> 1,
                                failed_tokens |-> << >>]),
                        {"notify"})
       ELSE CoreOutcome(db,
                        Return([tool |-> "notify.send", data |-> "error",
                                success |-> FALSE, topic |-> topic]),
                        {"notify"})

CoreSend(c) ==
    /\ pc[c] = "handler"
    /\ tool[c] = "notify.send"
    /\ \E user_id \in UserIdArgs, device_tokens \in DeviceTokenArgs, topic \in TopicArgs,
          profile \in ProfileTokens, fcm_ready \in BOOLEAN :
         LET tokens == effective_tokens(device_tokens, topic, profile)
             n == IF tokens = << >> THEN 1 ELSE Len(tokens)
         IN \E fcm \in FcmOutcomes(n) :
              CoreComplete(c,
                           [doc_id |-> "", user_id |-> user_id, medicines |-> << >>,
                            llm |-> NoCompletion, before |-> << >>,
                            tokens |-> tokens, fcm_ready |-> fcm_ready, fcm |-> fcm,
                            attempted |->
                              IF user_id # "" /\ fcm_ready
                              THEN send_each(tokens, fcm, 1, NoSends).attempted
                              ELSE << >>],
                           core_send(firestore, user_id, device_tokens, topic, profile,
                                     fcm_ready, fcm))

NextSend ==
    \E c \in SurfaceCalls :
        \/ Start(c, "notify.send", JAbsent)
        \/ CheckIntent(c)
        \/ CoreSend(c)
        \/ LogAudit(c)

InitSend == InitDomain(EmptyAdherenceStore)

SpecSend == InitSend /\ [][NextSend]_vars

\* Call c is a notify.send that reached the loop over a non-empty list of
\* device tokens.
SentToTokens(c) ==
    /\ tool[c] = "notify.send"
    /\ handler_result[c] # Pending
    /\ handler_input[c].user_id # ""
    /\ handler_input[c].fcm_ready
    /\ handler_input[c].tokens # << >>

\* C38: a notify.send that reaches its sends with a non-empty list of device
\* tokens returns; it attempted every token of the list once, in order,
\* whatever sends failed; failed_tokens are the tokens whose send failed,
\* success_count + the number of failed_tokens is the number of tokens, and
\* success is true exactly when success_count > 0.
C38_EveryTokenAttemptedOnce ==
    \A c \in Calls :
        SentToTokens(c) =>
            LET inp == handler_input[c]
                res == handler_result[c].value
                failed == {i \in DOMAIN inp.tokens : inp.fcm[i] = "fail"}
            IN /\ handler_result[c].kind = "return"
               /\ inp.attempted = inp.tokens
               /\ res.success_count + Len(res.failed_tokens) = Len(inp.tokens)
               /\ res.success_count = Len(inp.tokens) - Cardinality(failed)
               /\ \A i \in failed : inp.tokens[i] \in Range(res.failed_tokens)
               /\ res.success = (res.success_count > 0)

C38_Witness ==
    \E c \in Calls :
        /\ SentToTokens(c)
        /\ handler_input[c].tokens = <<"t1", "t2", "t3">>
        /\ handler_input[c].fcm = <<"ok", "fail", "ok">>
        /\ handler_result[c].value.success_count = 2
        /\ handler_result[c].value.failed_tokens = <<"t2">>
        /\ handler_result[c].value.success

====
